---- MODULE Spec2Model ----
(***************************************************************************)
(* A model of the Debug Adapter Protocol adapter of vscode-mock-debug:     *)
(* DebugProtocolAdapter (src/src/nnDebugAdapter.ts) and its subclass       *)
(* NnMockDebugSession (src/src/mockRuntime.ts).                            *)
(*                                                                         *)
(* One action is one synchronous turn of the JavaScript event loop: a call *)
(* of handleMessage by the host, a registration or disposal of the         *)
(* transport listener, or the run of one setImmediate callback.            *)
(***************************************************************************)
EXTENDS Integers, Sequences, FiniteSets, TLC

\* ------------------------------------------------------------------ bounds
\* number of inbound protocol messages the host delivers
MaxMessages == 2
\* number of listeners the host registers on onDidSendMessage
MaxListeners == 2
\* number of adapter-initiated requests (pending-request table entries)
MaxOutbound == 2
\* number of repeated sendResponse calls on an already sent response
MaxResend == 1

\* ------------------------------------------------------- values and inputs
\* JavaScript `undefined` for an optional boolean or string property
Undefined == "undefined"
\* an optional numeric property that is absent (typeof x !== 'number')
NoNumber == 0 - 1

OptBool == {Undefined, "true", "false"}

\* the commands dispatchRequest compares request.command with
SimpleCommands ==
    { "attach", "disconnect", "terminate", "restart", "setBreakpoints",
      "setFunctionBreakpoints", "setExceptionBreakpoints", "configurationDone",
      "continue", "stepIn", "stepOut", "stepBack", "reverseContinue",
      "restartFrame", "goto", "pause", "scopes", "setVariable",
      "setExpression", "source", "threads", "terminateThreads", "evaluate",
      "stepInTargets", "gotoTargets", "completions", "exceptionInfo",
      "loadedSources", "dataBreakpointInfo", "setDataBreakpoints",
      "readMemory", "writeMemory", "disassemble", "cancel",
      "breakpointLocations", "setInstructionBreakpoints" }

DispatchSet ==
    SimpleCommands \cup {"initialize", "launch", "next", "stackTrace", "variables"}

\* a command no branch of dispatchRequest matches (the extension's custom request)
UnknownCommands == {"toggleFormatting"}

\* the commands of the requests the host delivers: every command with a
\* handler of its own, one of the handlers that only respond, and an
\* unknown one
RequestCommands ==
    { "initialize", "launch", "next", "stackTrace", "variables",
      "configurationDone" }
    \cup UnknownCommands

\* request.arguments; a property a command does not carry is undefined
NoArgs ==
    [ linesStartAt1 |-> Undefined, columnsStartAt1 |-> Undefined,
      pathFormat |-> Undefined, startFrame |-> NoNumber, levels |-> NoNumber,
      variablesReference |-> 0 ]

ArgsFor(command) ==
    CASE command = "initialize" ->
           { [NoArgs EXCEPT !.linesStartAt1 = l, !.columnsStartAt1 = c, !.pathFormat = p] :
               l \in OptBool, c \in OptBool, p \in {"path", "uri"} }
           \cup {NoArgs}
      [] command = "variables" ->
           { [NoArgs EXCEPT !.variablesReference = r] : r \in {0, 1000} }
      [] OTHER -> {NoArgs}

\* ErrorDestination of @vscode/debugadapter, a bit mask: the set of its bits
ErrorDestination_User == {"User"}
ErrorDestination_Telemetry == {"Telemetry"}

\* the listener slot of the Emitter when no listener is set
NoListener == 0

\* the length of NnMockDebugSession.assignments
NumAssignments == 9

\* --------------------------------------------------------------- the state
VARIABLES
    kind,                     \* the class constructed: "base" or "nn"
    _debuggerLinesStartAt1,   \* set once by the constructor
    _debuggerColumnsStartAt1, \* set once by the constructor
    _clientLinesStartAt1,
    _clientColumnsStartAt1,
    _listener,                \* Emitter._listener, NoListener when undefined
    _pendingRequests,         \* the seqs that have a stored continuation
    _nextHandle,              \* Handles._nextHandle of _variableHandles
    _handleMap,               \* Handles._handleMap of _variableHandles
    caret,                    \* NnMockDebugSession.caret
    heap,                     \* the RuntimeVariable objects, by place of creation
    immediates,               \* the setImmediate queue, callbacks in order
    transport,                \* history: the messages the listeners received
    dropped,                  \* history: the messages fired with no listener set
    passed,                   \* history: every call of sendResponse
    asked,                    \* history: every call of the stack hook
    invoked,                  \* history: continuations invoked, in order
    rejected,                 \* history: requests whose async handler threw
    handled,                  \* history: the inbound requests handled
    pendingLog,               \* history: entries stored and responses received
    inbound,                  \* number of inbound messages handled so far
    registered,               \* number of listeners registered so far
    outbound,                 \* number of adapter-initiated requests so far
    resent,                   \* number of repeated sendResponse calls so far
    handles,                  \* a Handles<T> table on its own
    calls,                    \* history: the calls made on that table
    formatted,                \* history: the direct calls of convertFromRuntime
    converted,                \* history: the construction and the conversions
    runtime,                  \* the MockRuntime: its caret, timers and enumeration
    variable,                 \* a RuntimeVariable on its own
    observed,                 \* history: the calls made on the engine and on a variable
    disposed,                 \* history: the subscriptions disposed, in order
    subject,                  \* a Subject: its waiters, their timers and promises
    emitter                   \* an EventEmitter: its listeners and the emit under way

\* the state of the components exercised on their own
\* the state of the host's subscriptions and of the two helper classes
library == << disposed, subject, emitter >>

standalone ==
    << handles, calls, formatted, converted, runtime, variable, observed, library >>

\* the engine and the variable exercised on their own, and what they returned
apart == << runtime, variable, observed, library >>

vars ==
    << kind, _debuggerLinesStartAt1, _debuggerColumnsStartAt1,
       _clientLinesStartAt1, _clientColumnsStartAt1, _listener,
       _pendingRequests, _nextHandle, _handleMap, caret, heap, immediates,
       transport, dropped, passed, asked, invoked, rejected, handled, pendingLog, inbound, registered,
       outbound, resent, handles, calls, formatted, converted,
       runtime, variable, observed, disposed, subject, emitter >>

\* the variables of the session and the histories of its handlers
session ==
    << kind, _debuggerLinesStartAt1, _debuggerColumnsStartAt1,
       _clientLinesStartAt1, _clientColumnsStartAt1, _listener,
       _pendingRequests, _nextHandle, _handleMap, caret, heap, immediates,
       transport, dropped, passed, asked, invoked, rejected, handled,
       pendingLog, inbound, registered, outbound, resent >>

\* the part of the state a handler can read and write, as one record
Self ==
    [ kind |-> kind,
      _clientLinesStartAt1 |-> _clientLinesStartAt1,
      _clientColumnsStartAt1 |-> _clientColumnsStartAt1,
      _listener |-> _listener,
      _pendingRequests |-> _pendingRequests,
      _nextHandle |-> _nextHandle,
      _handleMap |-> _handleMap,
      caret |-> caret,
      heap |-> heap,
      immediates |-> immediates,
      transport |-> transport,
      dropped |-> dropped,
      passed |-> passed,
      asked |-> asked,
      invoked |-> invoked,
      rejected |-> rejected ]

Commit(st) ==
    /\ _clientLinesStartAt1' = st._clientLinesStartAt1
    /\ _clientColumnsStartAt1' = st._clientColumnsStartAt1
    /\ _listener' = st._listener
    /\ _pendingRequests' = st._pendingRequests
    /\ _nextHandle' = st._nextHandle
    /\ _handleMap' = st._handleMap
    /\ caret' = st.caret
    /\ heap' = st.heap
    /\ immediates' = st.immediates
    /\ transport' = st.transport
    /\ dropped' = st.dropped
    /\ passed' = st.passed
    /\ asked' = st.asked
    /\ invoked' = st.invoked
    /\ rejected' = st.rejected

\* ---------------------------------------------------------------- messages
\* a Response has no body until a handler sets one
NoBody == [absent |-> TRUE]

\* new Response(request): Message sets seq to 0, Response copies seq and command
Response(request) ==
    [ type |-> "response", seq |-> 0, request_seq |-> request.seq,
      command |-> request.command, success |-> TRUE, message |-> "",
      body |-> NoBody ]

\* { seq: 0, type: 'event', event: 'initialized' }
InitializedEvent ==
    [ type |-> "event", seq |-> 0, event |-> "initialized", body |-> NoBody ]

\* new StoppedEvent(what, 1)
StoppedEvent(what, threadId) ==
    [ type |-> "event", seq |-> 0, event |-> "stopped",
      body |-> [reason |-> what, threadId |-> threadId] ]

\* ----------------------------------------------------------------- Emitter
\* Emitter.fire that calls every listener registered so far
Emitter_fireToAll(st, message, cause) ==
    IF st._listener # NoListener
    THEN [st EXCEPT !.transport =
            @ \o [l \in 1 .. st._listener |->
                    [msg |-> message, to |-> l, cause |-> cause]]]
    ELSE [st EXCEPT !.dropped = Append(@, [msg |-> message, cause |-> cause])]

\* Emitter.fire: call the listener when one is set, console.warn otherwise.
\* A history entry records the listener that received the message and, as
\* `cause`, the seq of the request whose handler produced the message.
Emitter_fire(st, message, cause) ==
    IF st._listener # NoListener
    THEN [st EXCEPT !.transport =
            Append(@, [msg |-> message, to |-> st._listener, cause |-> cause])]
    ELSE [st EXCEPT !.dropped = Append(@, [msg |-> message, cause |-> cause])]

\* ------------------------------------------------------------ the adapter
\* _send: sets message.type and fires; it assigns no seq
_send(st, typ, message, cause) ==
    Emitter_fire(st, [message EXCEPT !.type = typ], cause)

\* sendResponse with the guard off by one: seq 0 already counts as sent
sendResponseGuardOffByOne(st, response, cause) ==
    LET noted == [st EXCEPT !.passed =
                     Append(@, [response |-> response, listener |-> st._listener,
                                cause |-> cause])]
    IN  IF response.seq >= 0
        THEN noted
        ELSE _send(noted, "response", [response EXCEPT !.type = "response"], cause)

\* sendResponse: a response whose seq is positive counts as already sent
sendResponse(st, response, cause) ==
    LET noted == [st EXCEPT !.passed =
                     Append(@, [response |-> response, listener |-> st._listener, cause |-> cause])]
    IN  IF response.seq > 0
        THEN noted
        ELSE _send(noted, "response", [response EXCEPT !.type = "response"], cause)

\* formatPII(format, true, variables) for a format without placeholders
formatPII(format, excludePII, variables) == format

\* a numeric code passed as codeOrMessage (typeof codeOrMessage === 'number')
Code(n) == [code |-> n]

\* the message of sendErrorResponse with showUser set whatever dest is
errorMessageAlwaysShown(codeOrMessage, format, dest) ==
    IF "code" \in DOMAIN codeOrMessage
    THEN [id |-> codeOrMessage.code, format |-> format, showUser |-> TRUE]
    ELSE codeOrMessage

\* sendErrorResponse, the message: built from the code, the format and the
\* bits of dest, or the structured message that was passed
errorMessage(codeOrMessage, format, dest) ==
    IF "code" \in DOMAIN codeOrMessage
    THEN LET base == [id |-> codeOrMessage.code, format |-> format]
             withUser ==
                 IF dest \cap ErrorDestination_User # {}
                 THEN [f \in DOMAIN base \cup {"showUser"} |->
                         IF f = "showUser" THEN TRUE ELSE base[f]]
                 ELSE base
         IN  IF dest \cap ErrorDestination_Telemetry # {}
             THEN [f \in DOMAIN withUser \cup {"sendTelemetry"} |->
                     IF f = "sendTelemetry" THEN TRUE ELSE withUser[f]]
             ELSE withUser
    ELSE codeOrMessage

\* sendErrorResponse
sendErrorResponse(st, response, codeOrMessage, format, dest, cause) ==
    LET msg == errorMessage(codeOrMessage, format, dest)
        failed ==
            [response EXCEPT
                !.success = FALSE,
                !.message = formatPII(msg.format, TRUE, Undefined),
                !.body = IF @ = NoBody
                         THEN [error |-> msg]
                         ELSE [f \in DOMAIN @ \cup {"error"} |->
                                 IF f = "error" THEN msg ELSE @[f]]]
    IN  sendResponse(st, failed, cause)

\* sendEvent without the deferral: this._send('event', event)
sendEventSynchronously(st, event, cause) == _send(st, "event", event, cause)

\* sendEvent: setImmediate(() => this._send('event', event))
sendEvent(st, event, cause) ==
    [st EXCEPT !.immediates = Append(@, [event |-> event, cause |-> cause])]

\* stopOn
stopOn(st, what, cause) == sendEvent(st, StoppedEvent(what, 1), cause)

\* ---------------------------------------------------------------- Handles
\* JavaScript values are records with a tag; `undefined` is NoValue
NoValue == [tag |-> "undefined"]

\* what `x || y` tests: undefined, 0, "" and false are falsy, objects are not
Truthy(x) ==
    CASE x.tag = "undefined" -> FALSE
      [] x.tag = "number" -> x.tenths # 0
      [] x.tag = "string" -> x.s # ""
      [] x.tag = "boolean" -> x.b
      [] OTHER -> TRUE

\* the field initialiser `private startHandle = 1000`
DefaultStartHandle == 1000

NoHandles == [h \in {} |-> NoValue]

\* new Handles(startHandle): the argument sets _nextHandle only; the field
\* startHandle keeps its initialiser
Handles_new(startHandle) ==
    [ startHandle |-> DefaultStartHandle,
      _nextHandle |-> IF startHandle # NoNumber THEN startHandle
                      ELSE DefaultStartHandle,
      _handleMap |-> NoHandles ]

\* Handles.reset that leaves the map as it is
Handles_resetKeepsMap(t) == [t EXCEPT !._nextHandle = t.startHandle]

\* Handles.reset
Handles_reset(t) ==
    [t EXCEPT !._nextHandle = t.startHandle, !._handleMap = NoHandles]

\* Handles.create without the increment of _nextHandle
Handles_createNoIncrement(t, value) ==
    [ t |-> [t EXCEPT !._handleMap =
                [h \in DOMAIN @ \cup {t._nextHandle} |->
                    IF h = t._nextHandle THEN value ELSE @[h]]],
      handle |-> t._nextHandle ]

\* Handles.create: the table afterwards and the handle returned
Handles_create(t, value) ==
    [ t |-> [t EXCEPT !._nextHandle = @ + 1,
                      !._handleMap =
                          [h \in DOMAIN @ \cup {t._nextHandle} |->
                              IF h = t._nextHandle THEN value ELSE @[h]]],
      handle |-> t._nextHandle ]

\* Handles.get that tests only whether the handle is in the map
Handles_getIgnoresFalsy(map, handle, defaultValue) ==
    IF handle \in DOMAIN map THEN map[handle] ELSE defaultValue

\* Handles.get: _handleMap.get(handle) || defaultValue
Handles_get(map, handle, defaultValue) ==
    IF handle \in DOMAIN map /\ Truthy(map[handle])
    THEN map[handle]
    ELSE defaultValue

\* convertDebuggerLineToClient that never shifts
convertDebuggerLineToClientUnshifted(st, line) == line

\* convertDebuggerLineToClient
convertDebuggerLineToClient(st, line) ==
    IF _debuggerLinesStartAt1
    THEN IF st._clientLinesStartAt1 THEN line ELSE line - 1
    ELSE IF st._clientLinesStartAt1 THEN line + 1 ELSE line

\* convertDebuggerColumnToClient with the two shifts exchanged
convertDebuggerColumnToClientReversed(st, column) ==
    IF _debuggerColumnsStartAt1
    THEN IF st._clientColumnsStartAt1 THEN column ELSE column + 1
    ELSE IF st._clientColumnsStartAt1 THEN column - 1 ELSE column

\* convertDebuggerColumnToClient
convertDebuggerColumnToClient(st, column) ==
    IF _debuggerColumnsStartAt1
    THEN IF st._clientColumnsStartAt1 THEN column ELSE column - 1
    ELSE IF st._clientColumnsStartAt1 THEN column + 1 ELSE column

\* ------------------------------------------------------------ MockRuntime
\* the file every assignment names
SourceFile == "sampleWorkspace/readme.md"

\* MockRuntime.assignments: the lines 1 to 9 of the one file; the element
\* the code holds at index i is here at i + 1
assignments == [ i \in 1 .. NumAssignments |-> [linenumber |-> i, filename |-> SourceFile] ]

\* the two copies of the class
Variants == {"src/mockRuntime.ts", "unnamed/part_000"}

\* no call of getGlobalVariables is under way
NoEnumeration == [underway |-> FALSE]

\* new Map<string, string>(): breakAddresses with no key
NoBreakAddresses == [path \in {} |-> ""]

\* new MockRuntime(): the caret at 0, no timer set, no enumeration under way,
\* no break address; the variant is the copy of the class the object is
\* made from
MockRuntime_new(variant) ==
    [ variant |-> variant, caret |-> 0, timers |-> <<>>,
      enumeration |-> NoEnumeration, breakAddresses |-> NoBreakAddresses ]

\* sendEvent(event): setTimeout(() => this.emit(event), 0)
MockRuntime_sendEvent(rt, event) == [rt EXCEPT !.timers = Append(@, event)]

\* step without the modulo: the caret runs off either end
MockRuntime_stepUnbounded(rt, instruction, reverse) ==
    MockRuntime_sendEvent(
        [rt EXCEPT !.caret = IF reverse THEN @ - 1 ELSE @ + 1], "stopOnStep")

\* step(instruction, reverse)
MockRuntime_step(rt, instruction, reverse) ==
    LET moved ==
          IF ~reverse
          THEN [rt EXCEPT !.caret = (@ + 1) % Len(assignments)]
          ELSE [rt EXCEPT !.caret = (@ - 1 + Len(assignments)) % Len(assignments)]
    IN  MockRuntime_sendEvent(moved, "stopOnStep")

\* setBreakPoint(path, line): unnamed/part_000 stores the line's decimal
\* text under the path, one line for a path; src/mockRuntime.ts stores
\* nothing
MockRuntime_setBreakPoint(rt, path, line) ==
    IF rt.variant = "unnamed/part_000"
    THEN [rt EXCEPT !.breakAddresses =
             [ q \in DOMAIN @ \cup {path} |-> IF q = path THEN ToString(line) ELSE @[q] ]]
    ELSE rt

\* clearBreakpoints(path): unnamed/part_000 clears the whole map
MockRuntime_clearBreakpoints(rt, path) ==
    IF rt.variant = "unnamed/part_000"
    THEN [rt EXCEPT !.breakAddresses = NoBreakAddresses]
    ELSE rt

\* the condition of the loop in continue: the map has the assignment's
\* file and holds the text of the assignment's line for it
breaks(rt, assignment) ==
    /\ assignment.filename \in DOMAIN rt.breakAddresses
    /\ rt.breakAddresses[assignment.filename] = ToString(assignment.linenumber)

\* continue(reverse). src/mockRuntime.ts moves the caret on by one and sets
\* the timer of stopOnBreakpoint. unnamed/part_000 tests `breakAddresses`,
\* a Map and so truthy: it goes through the assignments, from the last when
\* reverse, and at the first that breaks puts the caret there and sets the
\* timer; when none breaks it does nothing
MockRuntime_continue(rt, reverse) ==
    IF rt.variant = "src/mockRuntime.ts"
    THEN MockRuntime_sendEvent([rt EXCEPT !.caret = (@ + 1) % Len(assignments)],
                               "stopOnBreakpoint")
    ELSE LET hits == { i \in DOMAIN assignments : breaks(rt, assignments[i]) }
             first == IF reverse
                      THEN CHOOSE i \in hits : \A j \in hits : j <= i
                      ELSE CHOOSE i \in hits : \A j \in hits : i <= j
         IN  IF hits = {}
             THEN rt
             ELSE MockRuntime_sendEvent([rt EXCEPT !.caret = first - 1],
                                        "stopOnBreakpoint")

\* start(program, stopOnEntry, debug)
MockRuntime_start(rt, debug) ==
    IF debug
    THEN MockRuntime_sendEvent([rt EXCEPT !.caret = 0], "stopOnEntry")
    ELSE MockRuntime_continue(rt, FALSE)

\* stepIn(targetId) and stepOut(): both are step(false, false)
MockRuntime_stepIn(rt) == MockRuntime_step(rt, FALSE, FALSE)
MockRuntime_stepOut(rt) == MockRuntime_step(rt, FALSE, FALSE)

\* MockRuntime.stack(startFrame, endFrame): one frame, at the caret's
\* assignment, and a count of 0; the statement after the return is never run
MockRuntime_stack(rt, startFrame, endFrame) ==
    LET alignment == assignments[rt.caret + 1]
    IN  [ count |-> 0,
          frames |-> << [ index |-> 0, name |-> "frame_name",
                          file |-> alignment.filename,
                          line |-> alignment.linenumber ] >> ]

\* the stack hook of a session that hands the call to its MockRuntime
MockDebugSession_stack(st, startFrame, endFrame) ==
    MockRuntime_stack(runtime, startFrame, endFrame)

\* stack(startFrame, endFrame) of DebugProtocolAdapter and of
\* NnMockDebugSession; a session of kind "mock" overrides it
stack(st, startFrame, endFrame) ==
    IF st.kind = "mock"
    THEN MockDebugSession_stack(st, startFrame, endFrame)
    ELSE [count |-> 0, frames |-> <<>>]

\* -------------------------------------------------------- RuntimeVariable
\* IRuntimeVariableType: number | boolean | string | RuntimeVariable[]; a
\* number is held in tenths, an array holds the places of its elements
Number(t) == [tag |-> "number", tenths |-> t]
String(s) == [tag |-> "string", s |-> s]
Boolean(b) == [tag |-> "boolean", b |-> b]
Array(items) == [tag |-> "array", items |-> items]

\* typeof value
typeof(value) == IF value.tag = "array" THEN "object" ELSE value.tag

\* new RuntimeVariable(name, value): reference is undefined
RuntimeVariable_new(name, value) ==
    [name |-> name, _value |-> value, reference |-> NoNumber]

\* RuntimeVariable.memory: the encoded text of a string value, else undefined
\* (_memory is assigned here only and nothing calls setMemory or the setter)
RuntimeVariable_memory(v) ==
    IF v._value.tag = "string" THEN [tag |-> "bytes", of |-> v._value.s]
    ELSE NoValue

\* a Uint8Array
Bytes(bytes) == [tag |-> "bytes", bytes |-> bytes]

\* U+FFFD, what the decoder puts for bytes that are not UTF-8, and U+FEFF,
\* the byte order mark it drops at the start
ReplacementCharacter == 65533
ByteOrderMark == 65279

\* new TextEncoder().encode(s) for a text held as its code points (none a
\* surrogate): the UTF-8 bytes of each in turn
RECURSIVE encode(_)
encode(s) ==
    IF s = <<>> THEN <<>>
    ELSE LET c == Head(s)
             bytes ==
               IF c < 128 THEN << c >>
               ELSE IF c < 2048 THEN << 192 + (c \div 64), 128 + (c % 64) >>
               ELSE IF c < 65536
               THEN << 224 + (c \div 4096), 128 + ((c \div 64) % 64), 128 + (c % 64) >>
               ELSE << 240 + (c \div 262144), 128 + ((c \div 4096) % 64),
                       128 + ((c \div 64) % 64), 128 + (c % 64) >>
         IN  bytes \o encode(Tail(s))

\* the UTF-8 decoder of TextDecoder (not fatal): the code points of the
\* bytes from place i on, with c the code point under way, needed the
\* number of bytes it still lacks, and lower..upper the range of the next
\* one; a byte that cannot start or continue a sequence yields U+FFFD, and a
\* byte that cannot continue is then read again as a first byte
RECURSIVE decodeFrom(_, _, _, _, _, _)
decodeFrom(bytes, i, c, needed, lower, upper) ==
    IF i > Len(bytes)
    THEN IF needed # 0 THEN << ReplacementCharacter >> ELSE <<>>
    ELSE LET b == bytes[i]
         IN  IF needed = 0
             THEN IF b <= 127
                  THEN << b >> \o decodeFrom(bytes, i + 1, 0, 0, 128, 191)
                  ELSE IF b \in 194 .. 223
                  THEN decodeFrom(bytes, i + 1, b - 192, 1, 128, 191)
                  ELSE IF b \in 224 .. 239
                  THEN decodeFrom(bytes, i + 1, b - 224, 2,
                                  IF b = 224 THEN 160 ELSE 128,
                                  IF b = 237 THEN 159 ELSE 191)
                  ELSE IF b \in 240 .. 244
                  THEN decodeFrom(bytes, i + 1, b - 240, 3,
                                  IF b = 240 THEN 144 ELSE 128,
                                  IF b = 244 THEN 143 ELSE 191)
                  ELSE << ReplacementCharacter >>
                       \o decodeFrom(bytes, i + 1, 0, 0, 128, 191)
             ELSE IF b \notin lower .. upper
             THEN << ReplacementCharacter >> \o decodeFrom(bytes, i, 0, 0, 128, 191)
             ELSE IF needed = 1
             THEN << c * 64 + (b - 128) >> \o decodeFrom(bytes, i + 1, 0, 0, 128, 191)
             ELSE decodeFrom(bytes, i + 1, c * 64 + (b - 128), needed - 1, 128, 191)

\* new TextDecoder().decode(bytes): a byte order mark at the start is dropped
decode(bytes) ==
    LET s == decodeFrom(bytes, 1, 0, 0, 128, 191)
    IN  IF s # <<>> /\ Head(s) = ByteOrderMark THEN Tail(s) ELSE s

\* new RuntimeVariable(name, value) with its private _memory, for a variable
\* whose text is held as code points
RuntimeVariable_construct(name, value) ==
    [name |-> name, _value |-> value, _memory |-> NoValue, reference |-> NoNumber]

\* set value(value)
RuntimeVariable_set_value(v, value) ==
    [v EXCEPT !._value = value, !._memory = NoValue]

\* get memory(): the variable afterwards and what is returned
RuntimeVariable_get_memory(v) ==
    LET filled ==
          IF v._memory = NoValue /\ typeof(v._value) = "string"
          THEN [v EXCEPT !._memory = Bytes(encode(v._value.s))]
          ELSE v
    IN  [v |-> filled, memory |-> filled._memory]

\* Uint8Array.prototype.set(data, offset) on a buffer that has the room
set(memory, data, offset) ==
    [ i \in DOMAIN memory |->
        IF i - 1 \in offset .. (offset + Len(data) - 1)
        THEN data[i - offset] ELSE memory[i] ]

\* setMemory(data, offset): the variable afterwards, whether the bytes were
\* written, and whether memory.set threw a RangeError for lack of room
RuntimeVariable_setMemory(v, data, offset) ==
    LET read == RuntimeVariable_get_memory(v)
        memory == read.memory
    IN  IF memory = NoValue
        THEN [v |-> read.v, written |-> FALSE, thrown |-> FALSE]
        ELSE IF offset + Len(data) > Len(memory.bytes)
        THEN [v |-> read.v, written |-> FALSE, thrown |-> TRUE]
        ELSE LET after == Bytes(set(memory.bytes, data, offset))
             IN  [ v |-> [read.v EXCEPT !._memory = after,
                                        !._value = String(decode(after.bytes))],
                   written |-> TRUE, thrown |-> FALSE ]

\* the cancellationToken argument left out
NoToken == [given |-> FALSE, from |-> 0]

\* a cancellationToken that answers true from its k-th call on, and never
\* when k is 0
Token(k) == [given |-> TRUE, from |-> k]

\* a cancellationToken whose answer is taken for false
cancelledNever(token, p) == FALSE

\* cancellationToken() called for the p-th time
cancelled(token, p) == token.from # 0 /\ p >= token.from

\* the number of variables getGlobalVariables makes at most
NumGlobals == 10

\* new RuntimeVariable(`global_${i}`, i)
global(i) == RuntimeVariable_new("global_" \o ToString(i), Number(10 * i))

\* getGlobalVariables from the top of the loop body for i on, up to the next
\* await or the return: a is the array so far and polls the number of calls
\* of the token so far. src/mockRuntime.ts awaits a timeout at the end of
\* every pass that does not break and returns after the loop; part_000 awaits
\* one timeout after the loop and then returns
RECURSIVE enumerate(_, _, _, _, _)
enumerate(variant, token, i, a, polls) ==
    IF i >= NumGlobals
    THEN IF variant = "src/mockRuntime.ts"
         THEN [underway |-> FALSE, token |-> token, a |-> a, polls |-> polls]
         ELSE [ underway |-> TRUE, token |-> token, i |-> i, a |-> a,
                polls |-> polls, looping |-> FALSE ]
    ELSE LET pushed == Append(a, global(i))
             asks == token.given
             polled == IF asks THEN polls + 1 ELSE polls
         IN  IF asks /\ cancelled(token, polled)
             THEN enumerate(variant, token, NumGlobals, pushed, polled)
             ELSE IF variant = "src/mockRuntime.ts"
             THEN [ underway |-> TRUE, token |-> token, i |-> i + 1,
                    a |-> pushed, polls |-> polled, looping |-> TRUE ]
             ELSE enumerate(variant, token, i + 1, pushed, polled)

\* getGlobalVariables(cancellationToken): the call up to its first await
MockRuntime_getGlobalVariables(rt, token) ==
    [rt EXCEPT !.enumeration = enumerate(rt.variant, token, 0, <<>>, 0)]

\* the timeout a call of getGlobalVariables awaits has run: the call goes on
\* up to its next await, or returns
MockRuntime_resume(rt) ==
    LET e == rt.enumeration
    IN  [rt EXCEPT !.enumeration =
            IF e.looping
            THEN enumerate(rt.variant, e.token, e.i, e.a, e.polls)
            ELSE [underway |-> FALSE, token |-> e.token, a |-> e.a, polls |-> e.polls]]

\* the object a `new` expression creates gets the next place on the heap
allocate(st, object) ==
    [st |-> [st EXCEPT !.heap = Append(@, object)], id |-> Len(st.heap) + 1]

\* the values _variableHandles holds
Locals == [tag |-> "locals"]
Globals == [tag |-> "globals"]
Variable(id) == [tag |-> "variable", id |-> id]

\* this._variableHandles.create(value)
create(st, value) ==
    LET r == Handles_create([ startHandle |-> DefaultStartHandle,
                              _nextHandle |-> st._nextHandle,
                              _handleMap |-> st._handleMap ], value)
    IN  [ st |-> [st EXCEPT !._nextHandle = r.t._nextHandle,
                            !._handleMap = r.t._handleMap],
          handle |-> r.handle ]

\* getLocalVariables: [] in the base class, two new variables holding 1 and
\* 2 in NnMockDebugSession
getLocalVariables(st) ==
    IF st.kind = "nn"
    THEN LET a == allocate(st, RuntimeVariable_new("local_1", Number(10)))
             b == allocate(a.st, RuntimeVariable_new("local_2", Number(20)))
         IN  [st |-> b.st, vs |-> << a.id, b.id >>]
    ELSE [st |-> st, vs |-> <<>>]

\* getGlobalVariables: [] in both classes
getGlobalVariables(st) == [st |-> st, vs |-> <<>>]

\* a piece of text the adapter renders: its form and what it is made from
Text(form, n, s) == [form |-> form, n |-> n, s |-> s]
NoText == Text("undefined", 0, "")

\* the names v.name.indexOf('lazy') >= 0 holds of
LazyNames == {"lazy_count"}

_valuesInHex == FALSE

\* formatNumber
formatNumber(x) ==
    IF _valuesInHex THEN Text("hex", x, "") ELSE Text("decimal", x, "")

\* `v.reference ??= create(v)` that assigns whatever reference holds
referenceAlwaysCreated(st, id) ==
    LET made == create(st, Variable(id))
    IN  [made.st EXCEPT !.heap[id].reference = made.handle]

\* v.reference ??= this._variableHandles.create(v)
referenceOrCreate(st, id) ==
    IF st.heap[id].reference # NoNumber
    THEN st
    ELSE LET made == create(st, Variable(id))
         IN  [made.st EXCEPT !.heap[id].reference = made.handle]

\* the lazy container left without its child
lazyContainerEmpty(st, id) ==
    allocate(st, RuntimeVariable_new("", Array(<<>>)))

\* new RuntimeVariable('', [new RuntimeVariable('', v.value)])
lazyContainer(st, id) ==
    LET child == allocate(st, RuntimeVariable_new("", st.heap[id]._value))
    IN  allocate(child.st, RuntimeVariable_new("", Array(<< child.id >>)))

\* convertFromRuntime(v) for the variable at place id: the state afterwards
\* and the DAP variable returned
convertFromRuntime(st, id) ==
    LET v == st.heap[id]
        dapVariable ==
            [ name |-> v.name, value |-> Text("???", 0, ""),
              type |-> typeof(v._value), variablesReference |-> 0,
              evaluateName |-> << "$", v.name >>, lazy |-> FALSE,
              memoryReference |-> NoText ]
        shaped ==
            IF v.name \in LazyNames
            THEN LET s1 == IF v.reference # NoNumber
                           THEN st
                           ELSE LET c == lazyContainer(st, id)
                                    made == create(c.st, Variable(c.id))
                                IN  [made.st EXCEPT
                                       !.heap[id].reference = made.handle]
                 IN  [ st |-> s1,
                       dap |-> [dapVariable EXCEPT
                          !.value = Text("lazy var", 0, ""),
                          !.variablesReference = s1.heap[id].reference,
                          !.lazy = TRUE] ]
            ELSE IF v._value.tag = "array"
            THEN LET s1 == referenceOrCreate(st, id)
                 IN  [ st |-> s1,
                       dap |-> [dapVariable EXCEPT
                          !.value = Text("Object", 0, ""),
                          !.variablesReference = s1.heap[id].reference] ]
            ELSE [ st |-> st,
                   dap |->
                     CASE v._value.tag = "number" ->
                            IF v._value.tenths % 10 = 0
                            THEN [dapVariable EXCEPT
                                    !.value = formatNumber(v._value.tenths \div 10),
                                    !.type = "integer"]
                            ELSE [dapVariable EXCEPT
                                    !.value = Text("tenths", v._value.tenths, ""),
                                    !.type = "float"]
                       [] v._value.tag = "string" ->
                            [dapVariable EXCEPT
                               !.value = Text("quoted", 0, v._value.s)]
                       [] v._value.tag = "boolean" ->
                            [dapVariable EXCEPT
                               !.value = Text(IF v._value.b THEN "true" ELSE "false", 0, "")]
                       [] OTHER ->
                            [dapVariable EXCEPT
                               !.value = Text(typeof(v._value), 0, "")] ]
    IN  IF Truthy(RuntimeVariable_memory(shaped.st.heap[id]))
        THEN LET s2 == referenceOrCreate(shaped.st, id)
             IN  [ st |-> s2,
                   dap |-> [shaped.dap EXCEPT
                      !.memoryReference = Text("decimal", s2.heap[id].reference, "")] ]
        ELSE shaped

\* vs.map(v => this.convertFromRuntime(v)), the calls made in order
RECURSIVE convertAll(_, _)
convertAll(st, vs) ==
    IF vs = <<>>
    THEN [st |-> st, out |-> <<>>]
    ELSE LET first == convertFromRuntime(st, Head(vs))
             rest == convertAll(first.st, Tail(vs))
         IN  [st |-> rest.st, out |-> << first.dap >> \o rest.out]

\* a handler that puts the client's line origin back before it responds
simpleRequestResetsOrigin(st, response, cause) ==
    sendResponse([st EXCEPT !._clientLinesStartAt1 = TRUE], response, cause)

\* the handlers that only send the response they are given
simpleRequest(st, response, cause) == sendResponse(st, response, cause)

\* createSource(filePath): the Source of a frame; its name is the basename
createSource(filePath) == [path |-> filePath, origin |-> "mock-adapter-data"]

\* the frames of a stackTraceRequest response: one StackFrame per engine
\* frame; no engine sets a column or an instruction (StackFrame's column is 0)
stackFrames(st, frames) ==
    [ i \in DOMAIN frames |->
        [ id |-> frames[i].index, name |-> frames[i].name,
          source |-> createSource(frames[i].file),
          line |-> convertDebuggerLineToClient(st, frames[i].line),
          column |-> 0 ] ]

\* stackTraceRequest with the total synthesized from the window asked for
\* (the alternative the code keeps in a comment)
stackTraceRequestSynthesized(st, response, args, cause) ==
    LET startFrame == IF args.startFrame # NoNumber THEN args.startFrame ELSE 0
        maxLevels == IF args.levels # NoNumber THEN args.levels ELSE 1000
        endFrame == startFrame + maxLevels
        stk == stack(st, startFrame, endFrame)
        called == [st EXCEPT !.asked = Append(@,
                      [ cause |-> cause, startFrame |-> startFrame,
                        endFrame |-> endFrame, stk |-> stk ])]
    IN  sendResponse(called,
            [response EXCEPT
                !.body = [ stackFrames |-> stackFrames(st, stk.frames),
                           totalFrames |-> endFrame + 20 ]],
            cause)

\* stackTraceRequest
stackTraceRequest(st, response, args, cause) ==
    LET startFrame == IF args.startFrame # NoNumber THEN args.startFrame ELSE 0
        maxLevels == IF args.levels # NoNumber THEN args.levels ELSE 1000
        endFrame == startFrame + maxLevels
        stk == stack(st, startFrame, endFrame)
        called == [st EXCEPT !.asked = Append(@,
                      [ cause |-> cause, startFrame |-> startFrame,
                        endFrame |-> endFrame, stk |-> stk ])]
    IN  sendResponse(called,
            [response EXCEPT
                !.body = [ stackFrames |-> stackFrames(st, stk.frames),
                           totalFrames |-> stk.count ]],
            cause)

\* the variables of variablesRequest with the two sentinels exchanged
variablesOfSwapped(st, reference) ==
    LET v == Handles_get(st._handleMap, reference, NoValue)
    IN  IF v.tag = "globals" THEN getLocalVariables(st)
        ELSE IF v.tag = "locals" THEN getGlobalVariables(st)
        ELSE IF v.tag = "variable" /\ st.heap[v.id]._value.tag = "array"
             THEN [st |-> st, vs |-> st.heap[v.id]._value.items]
        ELSE [st |-> st, vs |-> <<>>]

\* the variables of variablesRequest where a variable that holds no array
\* stands for itself
variablesOfScalarItself(st, reference) ==
    LET v == Handles_get(st._handleMap, reference, NoValue)
    IN  IF v.tag = "locals" THEN getLocalVariables(st)
        ELSE IF v.tag = "globals" THEN getGlobalVariables(st)
        ELSE IF v.tag = "variable"
             THEN IF st.heap[v.id]._value.tag = "array"
                  THEN [st |-> st, vs |-> st.heap[v.id]._value.items]
                  ELSE [st |-> st, vs |-> << v.id >>]
        ELSE [st |-> st, vs |-> <<>>]

\* the variables of variablesRequest with a reference the table does not
\* hold taken for the locals scope
variablesOfLocalsByDefault(st, reference) ==
    LET v == Handles_get(st._handleMap, reference, NoValue)
    IN  IF v.tag = "globals" THEN getGlobalVariables(st)
        ELSE IF v.tag = "variable" /\ st.heap[v.id]._value.tag = "array"
             THEN [st |-> st, vs |-> st.heap[v.id]._value.items]
        ELSE getLocalVariables(st)

\* variablesRequest, the choice of vs: what the reference resolves to
variablesOf(st, reference) ==
    LET v == Handles_get(st._handleMap, reference, NoValue)
    IN  IF v.tag = "locals" THEN getLocalVariables(st)
        ELSE IF v.tag = "globals" THEN getGlobalVariables(st)
        ELSE IF v.tag = "variable" /\ st.heap[v.id]._value.tag = "array"
             THEN [st |-> st, vs |-> st.heap[v.id]._value.items]
        ELSE [st |-> st, vs |-> <<>>]

\* variablesRequest
variablesRequest(st, response, args, cause) ==
    LET chosen == variablesOf(st, args.variablesReference)
        mapped == convertAll(chosen.st, chosen.vs)
    IN  sendResponse(mapped.st,
            [response EXCEPT !.body = [variables |-> mapped.out]], cause)

\* initializeRequest writing one flag only
CapabilitiesConfigurationDoneOnly == [supportsConfigurationDoneRequest |-> TRUE]

\* the capability flags initializeRequest writes into response.body
Capabilities ==
    [ supportsConditionalBreakpoints |-> FALSE,
      supportsHitConditionalBreakpoints |-> FALSE,
      supportsFunctionBreakpoints |-> FALSE,
      supportsConfigurationDoneRequest |-> TRUE,
      supportsEvaluateForHovers |-> FALSE,
      supportsStepBack |-> FALSE,
      supportsSetVariable |-> FALSE,
      supportsRestartFrame |-> FALSE,
      supportsStepInTargetsRequest |-> FALSE,
      supportsGotoTargetsRequest |-> FALSE,
      supportsCompletionsRequest |-> FALSE,
      supportsRestartRequest |-> FALSE,
      supportsExceptionOptions |-> FALSE,
      supportsValueFormattingOptions |-> FALSE,
      supportsExceptionInfoRequest |-> FALSE,
      supportTerminateDebuggee |-> FALSE,
      supportsDelayedStackTraceLoading |-> FALSE,
      supportsLoadedSourcesRequest |-> FALSE,
      supportsLogPoints |-> FALSE,
      supportsTerminateThreadsRequest |-> FALSE,
      supportsSetExpression |-> FALSE,
      supportsTerminateRequest |-> FALSE,
      supportsDataBreakpoints |-> FALSE,
      supportsReadMemoryRequest |-> FALSE,
      supportsDisassembleRequest |-> FALSE,
      supportsCancelRequest |-> FALSE,
      supportsBreakpointLocationsRequest |-> FALSE,
      supportsClipboardContext |-> FALSE,
      supportsSteppingGranularity |-> FALSE,
      supportsInstructionBreakpoints |-> FALSE,
      supportsExceptionFilterOptions |-> FALSE ]

\* the body dispatchRequest gives an initialize response: {}
EmptyBody == [x \in {} |-> FALSE]

\* initializeRequest: fills the body, raises `initialized`, sends the response
initializeRequest(st, response, args, cause) ==
    IF response.body = NoBody
    THEN st
    ELSE LET filled == [response EXCEPT !.body =
                          [f \in DOMAIN response.body \cup DOMAIN Capabilities |->
                              IF f \in DOMAIN Capabilities
                              THEN Capabilities[f] ELSE response.body[f]]]
         IN  sendResponse(sendEvent(st, InitializedEvent, cause), filled, cause)

\* NnMockDebugSession.launchRequest: `await this._configurationDone.wait(1000)`
\* reads a property no class declares or assigns, so the call throws a
\* TypeError inside the async function: its promise rejects, and neither the
\* sendResponse nor the setTimeout after the await is reached
NnMockDebugSession_launchRequest(st, response, cause) ==
    [st EXCEPT !.rejected = @ \cup {cause}]

\* launchRequest, as dispatched on `this`
launchRequest(st, response, cause) ==
    IF st.kind = "nn"
    THEN NnMockDebugSession_launchRequest(st, response, cause)
    ELSE sendResponse(st, response, cause)

\* NnMockDebugSession.nextRequest: move the caret, stopOn('step'), respond
NnMockDebugSession_nextRequest(st, response, cause) ==
    LET moved == [st EXCEPT !.caret = (@ + 1) % NumAssignments]
    IN  sendResponse(stopOn(moved, "step", cause), response, cause)

\* nextRequest, as dispatched on `this`
nextRequest(st, response, cause) ==
    IF st.kind = "nn"
    THEN NnMockDebugSession_nextRequest(st, response, cause)
    ELSE sendResponse(st, response, cause)

\* the initialize branch without its else: a rejected request falls through
\* to initializeRequest
dispatchInitializeFallsThrough(st, response, request) ==
    LET args == request.arguments
        rejectedFirst ==
            IF args.pathFormat # "path"
            THEN sendErrorResponse(st, response, Code(2018),
                     "debug adapter only supports native paths",
                     ErrorDestination_Telemetry, request.seq)
            ELSE st
    IN  initializeRequest(rejectedFirst, [response EXCEPT !.body = EmptyBody],
            args, request.seq)

\* the initialize branch of dispatchRequest
dispatchInitialize(st, response, request) ==
    LET args == request.arguments
        withLines ==
            IF args.linesStartAt1 # Undefined
            THEN [st EXCEPT !._clientLinesStartAt1 = (args.linesStartAt1 = "true")]
            ELSE st
        withColumns ==
            IF args.columnsStartAt1 # Undefined
            THEN [withLines EXCEPT
                    !._clientColumnsStartAt1 = (args.columnsStartAt1 = "true")]
            ELSE withLines
    IN  IF args.pathFormat # "path"
        THEN sendErrorResponse(withColumns, response, Code(2018),
                 "debug adapter only supports native paths",
                 ErrorDestination_Telemetry, request.seq)
        ELSE initializeRequest(withColumns, [response EXCEPT !.body = EmptyBody],
                 args, request.seq)

\* an unknown command answered with an error response
unknownRequestAnswered(st, response, request) ==
    sendErrorResponse(st, response, Code(1014), "unrecognized request",
        ErrorDestination_Telemetry, request.seq)

\* the final else of dispatchRequest: console.error, nothing else
unknownRequest(st, response, request) == st

\* dispatchRequest
dispatchRequest(st, request) ==
    LET response == Response(request)
        command == request.command
    IN  CASE command = "initialize" -> dispatchInitialize(st, response, request)
          [] command = "launch" -> launchRequest(st, response, request.seq)
          [] command = "next" -> nextRequest(st, response, request.seq)
          [] command = "stackTrace" ->
                stackTraceRequest(st, response, request.arguments, request.seq)
          [] command = "variables" ->
                variablesRequest(st, response, request.arguments, request.seq)
          [] command \in SimpleCommands -> simpleRequest(st, response, request.seq)
          [] OTHER -> unknownRequest(st, response, request)

\* handleMessage without the lookup: a response invokes a continuation
\* whether or not the table holds one
handleMessageInvokesUnchecked(st, msg) ==
    IF msg.type = "request"
    THEN dispatchRequest(st, msg)
    ELSE IF msg.type = "response"
         THEN [st EXCEPT !._pendingRequests = @ \ {msg.request_seq},
                         !.invoked = Append(@, msg.request_seq)]
         ELSE st

\* handleMessage without the delete: the entry stays in the table
handleMessageKeepsEntry(st, msg) ==
    IF msg.type = "request"
    THEN dispatchRequest(st, msg)
    ELSE IF msg.type = "response"
         THEN IF msg.request_seq \in st._pendingRequests
              THEN [st EXCEPT !.invoked = Append(@, msg.request_seq)]
              ELSE st
         ELSE st

\* handleMessage
handleMessage(st, msg) ==
    IF msg.type = "request"
    THEN dispatchRequest(st, msg)
    ELSE IF msg.type = "response"
         THEN IF msg.request_seq \in st._pendingRequests
              THEN [st EXCEPT !._pendingRequests = @ \ {msg.request_seq},
                              !.invoked = Append(@, msg.request_seq)]
              ELSE st
         ELSE st

\* ----------------------------------------------------- awaitNotify.Subject
\* Waiter.timer when no timer was set
NoTimer == 0

\* new Subject(): no waiter. `pool` holds every Waiter made, in order of
\* creation: its timer, the delay the timer was set with, and the calls of
\* its promise's resolve by cause (the first settles the promise, the later
\* ones do nothing); `live` is the set of timers set and neither run nor
\* cleared; `log` is the history of the calls and expiries
Subject_new ==
    [ waiters |-> <<>>, pool |-> <<>>, live |-> {}, log |-> <<>> ]

\* Waiter.do() without the clearTimeout
Waiter_doKeepsTimer(sj, w, cause) ==
    [sj EXCEPT !.pool[w].resolve = Append(@, cause)]

\* Waiter.do(): clears the timer when one was set, then calls resolve
Waiter_do(sj, w, cause) ==
    LET cleared ==
          IF sj.pool[w].timer # NoTimer
          THEN [sj EXCEPT !.live = @ \ {sj.pool[w].timer}]
          ELSE sj
    IN  [cleared EXCEPT !.pool[w].resolve = Append(@, cause)]

\* Subject.wait(timeout): a new Waiter, with a timer when the timeout is
\* truthy, pushed onto the array
Subject_wait(sj, timeout) ==
    LET w == Len(sj.pool) + 1
        waiter == [ timer |-> IF Truthy(timeout) THEN w ELSE NoTimer,
                    delay |-> IF Truthy(timeout) THEN timeout.tenths ELSE 0,
                    resolve |-> <<>> ]
    IN  [sj EXCEPT !.pool = Append(@, waiter),
                   !.live = IF Truthy(timeout) THEN @ \cup {w} ELSE @,
                   !.waiters = Append(@, w)]

\* the for-of loop of notifyAll from index i on
RECURSIVE Subject_notifyFrom(_, _)
Subject_notifyFrom(sj, i) ==
    IF i > Len(sj.waiters)
    THEN sj
    ELSE Subject_notifyFrom(Waiter_do(sj, sj.waiters[i], "notifyAll"), i + 1)

\* Subject.notifyAll(): do() on every waiter of the array, which keeps them
Subject_notifyAll(sj) == Subject_notifyFrom(sj, 1)

\* Subject.notify(): pops the last waiter of the array, if any, and do()
Subject_notify(sj) ==
    IF sj.waiters = <<>>
    THEN sj
    ELSE LET waiter == sj.waiters[Len(sj.waiters)]
         IN  Waiter_do([sj EXCEPT !.waiters = SubSeq(@, 1, Len(@) - 1)],
                       waiter, "notify")

\* the timer's callback is resolve itself: setTimeout(resolve, timeout)
Subject_timeout(sj, w) ==
    [sj EXCEPT !.live = @ \ {sj.pool[w].timer},
               !.pool[w].resolve = Append(@, "timeout")]

\* ---------------------------------------------------- orig/eventEmitter
\* `events` has no key for the event
NoArray == 0

\* what a listener does when it is called: nothing, or a call of
\* removeListener for the listener l
Returns == [op |-> "return"]
Removes(l) == [op |-> "removeListener", listener |-> l]

\* new EventEmitter(): events is {}. One event name is used; `arrays` holds
\* the Listener[] objects made for it, `events` is the place of the one
\* stored under the event's key or NoArray, `next` numbers the listener
\* functions and `emits` counts the emits begun. Of the emit last begun:
\* the array forEach iterates and the index it is at, the listeners
\* registered when it began, and the listeners called, in order
EventEmitter_new ==
    [ arrays |-> <<>>, events |-> NoArray, next |-> 1, emits |-> 0,
      emit |-> [ state |-> "none", array |-> NoArray, k |-> 0, length |-> 0,
                 registered |-> <<>>, called |-> <<>> ] ]

\* on(event, listener): the array is made when the key is absent
EventEmitter_on(em, listener) ==
    LET made ==
          IF em.events = NoArray
          THEN [em EXCEPT !.arrays = Append(@, <<>>), !.events = Len(em.arrays) + 1]
          ELSE em
    IN  [made EXCEPT !.arrays[made.events] = Append(@, listener)]

\* Array.prototype.indexOf, counted from 1; 0 when absent
indexOf(array, x) ==
    IF \E i \in DOMAIN array : array[i] = x
    THEN CHOOSE i \in DOMAIN array : array[i] = x /\ \A j \in 1 .. (i - 1) : array[j] # x
    ELSE 0

\* array.splice(idx, 1)
splice(array, idx) ==
    SubSeq(array, 1, idx - 1) \o SubSeq(array, idx + 1, Len(array))

\* removeListener(event, listener): splices the stored array in place and
\* deletes the key when the array is left empty
EventEmitter_removeListener(em, listener) ==
    IF em.events = NoArray
    THEN em
    ELSE LET idx == indexOf(em.arrays[em.events], listener)
             spliced ==
               IF idx > 0
               THEN [em EXCEPT !.arrays[em.events] = splice(@, idx)]
               ELSE em
         IN  IF spliced.arrays[em.events] = <<>>
             THEN [spliced EXCEPT !.events = NoArray]
             ELSE spliced

\* emit(event): returns when the key is absent, else forEach begins on the
\* stored array, its length read once
EventEmitter_emit(em) ==
    IF em.events = NoArray
    THEN [em EXCEPT !.emit = [ state |-> "returned", array |-> NoArray, k |-> 0,
                               length |-> 0, registered |-> <<>>, called |-> <<>> ]]
    ELSE [em EXCEPT !.emit = [ state |-> "forEach", array |-> em.events, k |-> 1,
                               length |-> Len(em.arrays[em.events]),
                               registered |-> em.arrays[em.events],
                               called |-> <<>> ]]

\* one round of forEach: the callback is called for index k when the array
\* still has that index, and the listener does what `does` says
EventEmitter_forEach(em, does) ==
    IF em.emit.k > em.emit.length
    THEN [em EXCEPT !.emit.state = "returned"]
    ELSE IF em.emit.k > Len(em.arrays[em.emit.array])
         THEN [em EXCEPT !.emit.k = @ + 1]
         ELSE LET listener == em.arrays[em.emit.array][em.emit.k]
                  called == [em EXCEPT !.emit.called = Append(@, listener),
                                       !.emit.k = @ + 1]
              IN  IF does.op = "removeListener"
                  THEN EventEmitter_removeListener(called, does.listener)
                  ELSE called

\* ------------------------------------------------------------- the actions
\* the constructor's linesAndColumnsStartAt1: its argument when that is a
\* boolean, false otherwise
linesAndColumnsStartAt1(argument) ==
    IF argument \in {"true", "false"} THEN argument = "true" ELSE FALSE

\* what the constructor is called with: NnMockDebugSession calls super()
ConstructorArguments(class) == IF class = "nn" THEN {Undefined} ELSE OptBool

\* the fields of a session as the constructors leave them
Fresh ==
    /\ _debuggerLinesStartAt1 \in
          { linesAndColumnsStartAt1(a) : a \in ConstructorArguments(kind) }
    /\ _debuggerColumnsStartAt1 = _debuggerLinesStartAt1
    /\ _clientLinesStartAt1 = TRUE
    /\ _clientColumnsStartAt1 = TRUE
    /\ _pendingRequests = {}
    /\ _nextHandle = 1000
    /\ _handleMap = NoHandles
    /\ caret = 0
    /\ immediates = <<>>
    /\ transport = <<>>
    /\ dropped = <<>>
    /\ passed = <<>>
    /\ asked = <<>>
    /\ invoked = <<>>
    /\ rejected = {}
    /\ handled = <<>>
    /\ pendingLog = <<>>
    /\ inbound = 0
    /\ outbound = 0
    /\ resent = 0

\* the adapter as its constructor leaves it, but for the Emitter's listener
Constructed ==
    /\ kind \in {"base", "nn"}
    /\ Fresh

\* the host has not subscribed to onDidSendMessage
NotSubscribed ==
    /\ _listener = NoListener
    /\ registered = 0

\* the engine holds no variable and none is formatted apart from requests
EngineIdle ==
    /\ heap = <<>>
    /\ formatted = <<>>

\* the MockRuntime is constructed and nothing calls it
\* no subscription has been disposed and nothing waits on the Subject
LibraryIdle ==
    /\ disposed = <<>>
    /\ subject = Subject_new
    /\ emitter = EventEmitter_new

RuntimeIdle ==
    /\ runtime = MockRuntime_new("src/mockRuntime.ts")
    /\ variable = RuntimeVariable_construct("", Number(0))
    /\ observed = <<>>

\* no coordinate is converted apart from requests
TranslatorIdle == converted = <<>>

\* the table on its own is not in use
HandlesIdle ==
    /\ handles = Handles_new(NoNumber)
    /\ calls = <<>>

AdapterInit == Constructed /\ NotSubscribed

Init ==
    AdapterInit /\ EngineIdle /\ HandlesIdle /\ TranslatorIdle /\ RuntimeIdle /\ LibraryIdle

\* the host calls handleMessage with a request
HandleRequest ==
    /\ inbound < MaxMessages
    /\ \E c \in RequestCommands :
         \E a \in ArgsFor(c) :
           LET request == [ type |-> "request", seq |-> inbound + 1,
                            command |-> c, arguments |-> a ]
           IN  /\ Commit(handleMessage(Self, request))
               /\ handled' = Append(handled,
                     [ seq |-> request.seq, command |-> c,
                       pathFormat |-> a.pathFormat,
                       listening |-> _listener # NoListener ])
    /\ inbound' = inbound + 1
    /\ UNCHANGED standalone
    /\ UNCHANGED << kind, _debuggerLinesStartAt1, _debuggerColumnsStartAt1,
                    pendingLog, registered, outbound, resent >>

\* the messages other than requests the host can deliver: a response to a
\* seq an adapter-initiated request has had or to the seq the next one will
\* have, or an event
OtherMessages ==
    { [type |-> "response", seq |-> inbound + 1, request_seq |-> rs] :
        rs \in 1 .. (outbound + 1) }
    \cup { [type |-> "event", seq |-> inbound + 1, request_seq |-> 0] }

\* the host calls handleMessage with a response or an event of its own
HandleOther ==
    /\ inbound < MaxMessages
    /\ \E msg \in OtherMessages :
         /\ Commit(handleMessage(Self, msg))
         /\ pendingLog' =
               IF msg.type = "response"
               THEN Append(pendingLog, [op |-> "response", seq |-> msg.request_seq])
               ELSE pendingLog
    /\ inbound' = inbound + 1
    /\ UNCHANGED standalone
    /\ UNCHANGED << kind, _debuggerLinesStartAt1, _debuggerColumnsStartAt1,
                    handled, registered, outbound, resent >>

\* the host subscribes a listener: onDidSendMessage(listener)
Register ==
    /\ registered < MaxListeners
    /\ registered' = registered + 1
    /\ _listener' = registered + 1
    /\ UNCHANGED standalone
    /\ UNCHANGED << kind, _debuggerLinesStartAt1, _debuggerColumnsStartAt1,
                    _clientLinesStartAt1, _clientColumnsStartAt1,
                    _pendingRequests, _nextHandle, _handleMap, caret, heap,
                    immediates, transport, dropped, passed, asked, invoked, rejected,
                    handled, pendingLog, inbound, outbound, resent >>

\* the host disposes the subscription a registration returned
Dispose ==
    /\ registered > 0
    /\ _listener' = NoListener
    /\ UNCHANGED standalone
    /\ UNCHANGED << kind, _debuggerLinesStartAt1, _debuggerColumnsStartAt1,
                    _clientLinesStartAt1, _clientColumnsStartAt1,
                    _pendingRequests, _nextHandle, _handleMap, caret, heap,
                    immediates, transport, dropped, passed, asked, invoked, rejected,
                    handled, pendingLog, inbound, registered, outbound, resent >>

\* the event loop runs the oldest setImmediate callback of sendEvent
RunImmediate ==
    /\ immediates # <<>>
    /\ LET job == Head(immediates)
       IN  Commit(_send([Self EXCEPT !.immediates = Tail(@)],
                        "event", job.event, job.cause))
    /\ UNCHANGED standalone
    /\ UNCHANGED << kind, _debuggerLinesStartAt1, _debuggerColumnsStartAt1,
                    handled, pendingLog, inbound, registered, outbound, resent >>

Next == HandleRequest \/ HandleOther \/ Register \/ Dispose \/ RunImmediate

Spec == Init /\ [][Next]_vars

\* ------------------------------------------- subscriptions told apart
\* the most disposals of subscriptions in a behaviour
MaxDisposals == 2

\* the dispose() of the IDisposable that registration number s returned: the
\* closure clears the emitter's one slot, whichever registration filled it
Subscription_dispose(st, s) == [st EXCEPT !._listener = NoListener]

\* the host disposes the subscription that one of its registrations returned
DisposeSubscription ==
    /\ Len(disposed) < MaxDisposals
    /\ \E s \in 1 .. registered :
         /\ Commit(Subscription_dispose(Self, s))
         /\ disposed' = Append(disposed, s)
    /\ UNCHANGED << handles, calls, formatted, converted, runtime, variable,
                    observed, subject, emitter >>
    /\ UNCHANGED << kind, _debuggerLinesStartAt1, _debuggerColumnsStartAt1,
                    handled, pendingLog, inbound, registered, outbound, resent >>

NextSubscription == HandleRequest \/ Register \/ DisposeSubscription \/ RunImmediate

SpecSubscription == Init /\ [][NextSubscription]_vars

\* ------------------------------------------------- a Subject on its own
\* the most calls of wait, and of notify and notifyAll together
MaxWaits == 3
MaxNotifies == 2

\* the timeouts wait is called with: none, 0, and two positive delays
Timeouts == {NoValue, Number(0), Number(10), Number(20)}

\* the notify and notifyAll calls made so far
Notifies(sj) == { k \in DOMAIN sj.log : sj.log[k] \in {"notify", "notifyAll"} }

\* subject.wait(timeout)
Wait ==
    /\ Len(subject.pool) < MaxWaits
    /\ \E timeout \in Timeouts :
         subject' = [Subject_wait(subject, timeout) EXCEPT !.log = Append(@, "wait")]
    /\ UNCHANGED << session, handles, calls, formatted, converted, runtime,
                    variable, observed, disposed, emitter >>

\* a timer runs out: one set earlier with a delay no longer runs out first
Expire ==
    /\ \E w \in subject.live :
         /\ \A v \in subject.live :
               v < w => subject.pool[v].delay > subject.pool[w].delay
         /\ subject' = [Subject_timeout(subject, w) EXCEPT !.log = Append(@, "timeout")]
    /\ UNCHANGED << session, handles, calls, formatted, converted, runtime,
                    variable, observed, disposed, emitter >>

\* subject.notify()
Notify ==
    /\ Cardinality(Notifies(subject)) < MaxNotifies
    /\ subject' = [Subject_notify(subject) EXCEPT !.log = Append(@, "notify")]
    /\ UNCHANGED << session, handles, calls, formatted, converted, runtime,
                    variable, observed, disposed, emitter >>

\* subject.notifyAll()
NotifyAll ==
    /\ Cardinality(Notifies(subject)) < MaxNotifies
    /\ subject' = [Subject_notifyAll(subject) EXCEPT !.log = Append(@, "notifyAll")]
    /\ UNCHANGED << session, handles, calls, formatted, converted, runtime,
                    variable, observed, disposed, emitter >>

InitSubject == Init /\ kind = "base" /\ ~_debuggerLinesStartAt1

NextSubject == Wait \/ Expire \/ Notify \/ NotifyAll

\* the event loop runs every timer that is due
SpecSubject == InitSubject /\ [][NextSubject]_vars /\ WF_vars(Expire)

\* -------------------------------------------- an EventEmitter on its own
\* the most listeners registered, and the most emits
MaxOns == 3
MaxEmits == 2

\* emitter.on(event, listener) with a function not registered before
On ==
    /\ emitter.next <= MaxOns
    /\ emitter.emit.state # "forEach"
    /\ emitter' = [EventEmitter_on(emitter, emitter.next) EXCEPT !.next = @ + 1]
    /\ UNCHANGED << session, handles, calls, formatted, converted, runtime,
                    variable, observed, disposed, subject >>

\* emitter.removeListener(event, listener), between emits
RemoveListener ==
    /\ emitter.emit.state # "forEach"
    /\ \E l \in 1 .. (emitter.next - 1) :
         /\ emitter.events # NoArray
         /\ indexOf(emitter.arrays[emitter.events], l) > 0
         /\ emitter' = EventEmitter_removeListener(emitter, l)
    /\ UNCHANGED << session, handles, calls, formatted, converted, runtime,
                    variable, observed, disposed, subject >>

\* emitter.emit(event) is called
Emit ==
    /\ emitter.emits < MaxEmits
    /\ emitter.emit.state # "forEach"
    /\ emitter' = [EventEmitter_emit(emitter) EXCEPT !.emits = @ + 1]
    /\ UNCHANGED << session, handles, calls, formatted, converted, runtime,
                    variable, observed, disposed, subject >>

\* forEach goes one round: the listener it calls returns at once, or removes
\* itself or another listener first
Invoke ==
    /\ emitter.emit.state = "forEach"
    /\ \E does \in {Returns} \cup { Removes(l) : l \in 1 .. (emitter.next - 1) } :
         emitter' = EventEmitter_forEach(emitter, does)
    /\ UNCHANGED << session, handles, calls, formatted, converted, runtime,
                    variable, observed, disposed, subject >>

InitEmitter == Init /\ kind = "base" /\ ~_debuggerLinesStartAt1

NextEmitter == On \/ RemoveListener \/ Emit \/ Invoke

SpecEmitter == InitEmitter /\ [][NextEmitter]_vars

\* --------------------------------------- calls of the public sendResponse
\* a caller passes sendResponse a response object that was passed to it
\* before: the object is as _send left it, its seq still 0
Resend ==
    /\ resent < MaxResend
    /\ \E i \in DOMAIN passed :
         Commit(sendResponse(Self, passed[i].response, passed[i].cause))
    /\ resent' = resent + 1
    /\ UNCHANGED standalone
    /\ UNCHANGED << kind, _debuggerLinesStartAt1, _debuggerColumnsStartAt1,
                    handled, pendingLog, inbound, registered, outbound >>

NextApi == Next \/ Resend

SpecApi == Init /\ [][NextApi]_vars

\* ------------------------------------------- adapter-initiated requests
\* The repository has no method that sends a request of the adapter's own
\* and stores a continuation; its contract is the specification's: the
\* request gets a freshly allocated seq, is sent, and a continuation is
\* stored in the pending-request table under that seq.
sendRequest(st, command) ==
    LET seq == outbound + 1
        request == [type |-> "request", seq |-> seq, command |-> command]
    IN  [_send(st, "request", request, 0) EXCEPT !._pendingRequests = @ \cup {seq}]

SendRequest ==
    /\ outbound < MaxOutbound
    /\ Commit(sendRequest(Self, "runInTerminal"))
    /\ pendingLog' = Append(pendingLog, [op |-> "store", seq |-> outbound + 1])
    /\ outbound' = outbound + 1
    /\ UNCHANGED standalone
    /\ UNCHANGED << kind, _debuggerLinesStartAt1, _debuggerColumnsStartAt1,
                    handled, inbound, registered, resent >>

NextPending == SendRequest \/ HandleOther \/ Register \/ Dispose

SpecPending == Init /\ [][NextPending]_vars

\* ------------------------------------------------ the handle table alone
\* the calls a table of its own receives after construction
MaxCalls == 4

\* the constructor's optional argument
StartHandles == {NoNumber, 999, 1000}

\* the values bound and the defaults passed, a falsy one among them
HandleValues ==
    { [tag |-> "number", tenths |-> 0], [tag |-> "string", s |-> "a"],
      [tag |-> "string", s |-> "b"] }

HandleDefaults == { NoValue, [tag |-> "string", s |-> "d"] }

\* the handles looked up: issued ones and one never issued
ProbedHandles == {999, 1000, 1001}

InitHandles ==
    /\ AdapterInit
    /\ EngineIdle
    /\ TranslatorIdle
    /\ RuntimeIdle
    /\ LibraryIdle
    /\ kind = "base"
    /\ ~_debuggerLinesStartAt1
    /\ \E s \in StartHandles :
         /\ handles = Handles_new(s)
         /\ calls = << [op |-> "new", startHandle |-> s] >>

AdapterUnchanged ==
    UNCHANGED << kind, _debuggerLinesStartAt1, _debuggerColumnsStartAt1,
                 _clientLinesStartAt1, _clientColumnsStartAt1, _listener,
                 _pendingRequests, _nextHandle, _handleMap, caret, heap,
                 immediates, transport, dropped, passed, asked, invoked, rejected,
                 handled, pendingLog, inbound, registered, outbound, resent,
                 formatted, converted, apart >>

\* a caller binds a value: create(value)
Create ==
    /\ Len(calls) <= MaxCalls
    /\ \E v \in HandleValues :
         LET r == Handles_create(handles, v)
         IN  /\ handles' = r.t
             /\ calls' = Append(calls,
                   [op |-> "create", value |-> v, handle |-> r.handle])
    /\ AdapterUnchanged

\* a caller looks a handle up: get(handle, defaultValue)
Get ==
    /\ Len(calls) <= MaxCalls
    /\ \E h \in ProbedHandles, d \in HandleDefaults :
         calls' = Append(calls,
             [ op |-> "get", handle |-> h, defaultValue |-> d,
               result |-> Handles_get(handles._handleMap, h, d) ])
    /\ UNCHANGED handles
    /\ AdapterUnchanged

\* a caller starts a new generation: reset()
Reset ==
    /\ Len(calls) <= MaxCalls
    /\ handles' = Handles_reset(handles)
    /\ calls' = Append(calls, [op |-> "reset"])
    /\ AdapterUnchanged

NextHandles == Create \/ Get \/ Reset

SpecHandles == InitHandles /\ [][NextHandles]_vars

\* ---------------------------------------------------- the value formatter
\* the direct calls of convertFromRuntime
MaxFormats == 3

\* the variables the engine holds: an element at place 1 and, at place 2, a
\* variable of either kind of name whose value is of any type, an array of
\* the element among them
ElementValues == { Number(30), String("s") }
RootValues == { Number(15), String(""), Boolean(FALSE), Array(<< 1 >>) }
RootNames == {"count"} \cup LazyNames
Roots == {1, 2}

\* the session is of either class, and the host has subscribed its listener
\* before the first request or has not
InitFormat ==
    /\ Constructed
    /\ ~_debuggerLinesStartAt1
    /\ \E l \in {NoListener, 1} : _listener = l /\ registered = l
    /\ HandlesIdle
    /\ TranslatorIdle
    /\ RuntimeIdle
    /\ LibraryIdle
    /\ formatted = <<>>
    /\ \E e \in ElementValues, n \in RootNames, x \in RootValues :
         heap = << RuntimeVariable_new("item", e), RuntimeVariable_new(n, x) >>

\* the adapter formats a variable the engine holds
Format ==
    /\ Len(formatted) < MaxFormats
    /\ \E id \in Roots :
         LET r == convertFromRuntime(Self, id)
         IN  /\ Commit(r.st)
             /\ formatted' = Append(formatted,
                   [ id |-> id, dap |-> r.dap,
                     minted |-> r.st._nextHandle - _nextHandle ])
    /\ UNCHANGED << kind, _debuggerLinesStartAt1, _debuggerColumnsStartAt1,
                    handled, pendingLog, inbound, registered, outbound, resent,
                    handles, calls, converted, apart >>

\* The repository has no code that binds a handle to 'locals' or 'globals'
\* (scopesRequest only responds); the specification has such handles minted
\* by the handle table: one for each sentinel, once.
mintScopes(st) == create(create(st, Locals).st, Globals).st

MintScope ==
    /\ \A h \in DOMAIN _handleMap : _handleMap[h] \notin {Locals, Globals}
    /\ Commit(mintScopes(Self))
    /\ UNCHANGED << kind, _debuggerLinesStartAt1, _debuggerColumnsStartAt1,
                    handled, pendingLog, inbound, registered, outbound, resent,
                    handles, calls, formatted, converted, apart >>

\* the host calls handleMessage with a variables request for a reference
\* the table has issued or for 0, which it never issues
HandleVariables ==
    /\ inbound < MaxMessages
    /\ \E r \in {0} \cup DOMAIN _handleMap :
         LET request == [ type |-> "request", seq |-> inbound + 1,
                          command |-> "variables",
                          arguments |-> [NoArgs EXCEPT !.variablesReference = r] ]
             after == handleMessage(Self, request)
         IN  /\ Commit(after)
             /\ handled' = Append(handled,
                   [ seq |-> request.seq, command |-> "variables",
                     pathFormat |-> Undefined,
                     listening |-> _listener # NoListener,
                     variablesReference |-> r,
                     resolved |-> Handles_get(_handleMap, r, NoValue),
                     minted |-> after._nextHandle - _nextHandle ])
    /\ inbound' = inbound + 1
    /\ UNCHANGED << kind, _debuggerLinesStartAt1, _debuggerColumnsStartAt1,
                    pendingLog, registered, outbound, resent,
                    handles, calls, formatted, converted, apart >>

NextFormat == Format \/ MintScope \/ HandleVariables

SpecFormat == InitFormat /\ [][NextFormat]_vars

\* ------------------------------------------------ the coordinate translator
\* the conversions made after construction
MaxConversions == 2

\* the lines and columns converted
Coordinates == 0 .. 2

\* the arguments of the initialize requests: each flag stated or left out,
\* one request with a pathFormat the adapter rejects among them
OriginArguments ==
    { [NoArgs EXCEPT !.linesStartAt1 = f[1], !.columnsStartAt1 = f[2],
                     !.pathFormat = f[3]] :
        f \in { << Undefined, Undefined, "path" >>, << "true", "false", "path" >>,
                << "false", "true", "path" >>, << "false", Undefined, "uri" >> } }

\* The repository has no client-to-engine conversion; the specification's
\* toEngine shifts by one, the other way round, when the conventions disagree.
convertClientLineToDebugger(st, line) ==
    IF _debuggerLinesStartAt1
    THEN IF st._clientLinesStartAt1 THEN line ELSE line + 1
    ELSE IF st._clientLinesStartAt1 THEN line - 1 ELSE line

convertClientColumnToDebugger(st, column) ==
    IF _debuggerColumnsStartAt1
    THEN IF st._clientColumnsStartAt1 THEN column ELSE column + 1
    ELSE IF st._clientColumnsStartAt1 THEN column - 1 ELSE column

InitCoord ==
    /\ Constructed
    /\ NotSubscribed
    /\ EngineIdle
    /\ HandlesIdle
    /\ RuntimeIdle
    /\ LibraryIdle
    /\ \E a \in ConstructorArguments(kind) :
         /\ _debuggerLinesStartAt1 = linesAndColumnsStartAt1(a)
         /\ converted = << [op |-> "new", argument |-> a] >>

\* the host calls handleMessage with an initialize request
HandleInitialize ==
    /\ inbound < MaxMessages
    /\ \E a \in OriginArguments :
         LET request == [ type |-> "request", seq |-> inbound + 1,
                          command |-> "initialize", arguments |-> a ]
         IN  /\ Commit(handleMessage(Self, request))
             /\ handled' = Append(handled,
                   [ seq |-> request.seq, command |-> "initialize",
                     pathFormat |-> a.pathFormat,
                     listening |-> _listener # NoListener,
                     linesStartAt1 |-> a.linesStartAt1,
                     columnsStartAt1 |-> a.columnsStartAt1 ])
    /\ inbound' = inbound + 1
    /\ UNCHANGED << kind, _debuggerLinesStartAt1, _debuggerColumnsStartAt1,
                    pendingLog, registered, outbound, resent,
                    handles, calls, formatted, converted, apart >>

\* the adapter converts an engine value to the client's convention, and a
\* client value to the engine's and back
Convert ==
    /\ Len(converted) <= MaxConversions
    /\ \E x \in Coordinates :
         converted' = Append(converted,
             [ op |-> "convert", value |-> x, after |-> inbound,
               line |-> convertDebuggerLineToClient(Self, x),
               column |-> convertDebuggerColumnToClient(Self, x),
               lineBack |-> convertDebuggerLineToClient(Self,
                               convertClientLineToDebugger(Self, x)),
               columnBack |-> convertDebuggerColumnToClient(Self,
                               convertClientColumnToDebugger(Self, x)) ])
    /\ UNCHANGED << kind, _debuggerLinesStartAt1, _debuggerColumnsStartAt1,
                    _clientLinesStartAt1, _clientColumnsStartAt1, _listener,
                    _pendingRequests, _nextHandle, _handleMap, caret, heap,
                    immediates, transport, dropped, passed, asked, invoked, rejected,
                    handled, pendingLog, inbound, registered, outbound, resent,
                    handles, calls, formatted, apart >>

NextCoord == HandleInitialize \/ Convert

SpecCoord == InitCoord /\ [][NextCoord]_vars

\* ------------------------------------------------------- error responses
\* what a handler passes to sendErrorResponse: a code with a format and a
\* destination (none, either or both bits), or a structured message
FailureFormats == {"debug adapter only supports native paths", "unrecognized request"}

StructuredMessages ==
    { [id |-> 7, format |-> "no such thread"],
      [id |-> 7, format |-> "no such thread", showUser |-> TRUE] }

Failures ==
    { [codeOrMessage |-> Code(2018), format |-> f, dest |-> d] :
        f \in FailureFormats,
        d \in SUBSET (ErrorDestination_User \cup ErrorDestination_Telemetry) }
    \cup { [codeOrMessage |-> m, format |-> Undefined, dest |-> ErrorDestination_User] :
             m \in StructuredMessages }

\* the handler of a request fails it: sendErrorResponse on the request's
\* Response, whose body the handler has set or not
SendError ==
    /\ inbound < MaxMessages
    /\ \E failure \in Failures, body \in {NoBody, EmptyBody} :
         LET request == [ type |-> "request", seq |-> inbound + 1,
                          command |-> "evaluate", arguments |-> NoArgs ]
             response == [Response(request) EXCEPT !.body = body]
         IN  /\ Commit(sendErrorResponse(Self, response, failure.codeOrMessage,
                           failure.format, failure.dest, request.seq))
             /\ handled' = Append(handled,
                   [ seq |-> request.seq, command |-> "evaluate",
                     pathFormat |-> Undefined,
                     listening |-> _listener # NoListener,
                     failure |-> failure ])
    /\ inbound' = inbound + 1
    /\ UNCHANGED standalone
    /\ UNCHANGED << kind, _debuggerLinesStartAt1, _debuggerColumnsStartAt1,
                    pendingLog, registered, outbound, resent >>

NextError == SendError \/ Register

SpecError == Init /\ [][NextError]_vars

\* ----------------------------------------------------------- stack traces
\* number of stackTrace requests the host delivers
MaxTraces == 1
\* number of timers the engine has set and not yet run
MaxTimers == 1
\* the arguments of a stackTrace request: startFrame and levels given or not
StackTraceArguments ==
    { [NoArgs EXCEPT !.startFrame = s, !.levels = n] :
        s \in {NoNumber, 1}, n \in {NoNumber, 0, 2} }

\* a session whose stack hook asks a MockRuntime, with the host listening
InitStack ==
    /\ kind = "mock"
    /\ Fresh
    /\ _listener = 1
    /\ registered = 1
    /\ EngineIdle
    /\ HandlesIdle
    /\ TranslatorIdle
    /\ LibraryIdle
    /\ \E v \in Variants : runtime = MockRuntime_new(v)
    /\ variable = RuntimeVariable_construct("", Number(0))
    /\ observed = <<>>

\* the host calls handleMessage with a stackTrace request
HandleStackTrace ==
    /\ inbound < MaxTraces
    /\ \E a \in StackTraceArguments :
         LET request == [ type |-> "request", seq |-> inbound + 1,
                          command |-> "stackTrace", arguments |-> a ]
         IN  /\ Commit(handleMessage(Self, request))
             /\ handled' = Append(handled,
                   [ seq |-> request.seq, command |-> "stackTrace",
                     pathFormat |-> a.pathFormat,
                     listening |-> _listener # NoListener,
                     startFrame |-> a.startFrame, levels |-> a.levels ])
    /\ inbound' = inbound + 1
    /\ UNCHANGED standalone
    /\ UNCHANGED << kind, _debuggerLinesStartAt1, _debuggerColumnsStartAt1,
                    pendingLog, registered, outbound, resent >>

\* the engine is told to step, forward or back
Step ==
    /\ Len(runtime.timers) < MaxTimers
    /\ \E reverse \in BOOLEAN :
         runtime' = MockRuntime_step(runtime, FALSE, reverse)
    /\ UNCHANGED << session, handles, calls, formatted, converted, library, variable, observed >>

\* the timer set first runs: the event is emitted, and nothing listens
Timer ==
    /\ runtime.timers # <<>>
    /\ runtime' = [runtime EXCEPT !.timers = Tail(@)]
    /\ UNCHANGED << session, handles, calls, formatted, converted, library, variable, observed >>

NextStack == HandleStackTrace \/ Step \/ Timer

SpecStack == InitStack /\ [][NextStack]_vars

\* ------------------------------------------------- a variable on its own
\* number of calls made on the variable after its construction
MaxAccesses == 3

\* the values a variable is given: a number, a boolean, and the texts "a",
\* "\u00e9" and the empty one
VariableValues ==
    { Number(10), Boolean(TRUE), String(<< 97 >>), String(<< 233 >>), String(<<>>) }

\* the bytes written: "a", and a byte no UTF-8 text holds
WrittenData == { << 97 >>, << 255 >> }

\* the offsets written at
WrittenOffsets == {0, 1}

InitVariable ==
    /\ AdapterInit
    /\ kind = "base"
    /\ ~_debuggerLinesStartAt1
    /\ EngineIdle
    /\ HandlesIdle
    /\ TranslatorIdle
    /\ LibraryIdle
    /\ runtime = MockRuntime_new("src/mockRuntime.ts")
    /\ \E x \in VariableValues :
         /\ variable = RuntimeVariable_construct("v", x)
         /\ observed = << [op |-> "new", value |-> x] >>

\* variable.value = x
SetValue ==
    /\ Len(observed) <= MaxAccesses
    /\ \E x \in VariableValues :
         /\ variable' = RuntimeVariable_set_value(variable, x)
         /\ observed' = Append(observed, [op |-> "value", value |-> x])
    /\ UNCHANGED << session, handles, calls, formatted, converted, library, runtime >>

\* variable.memory is read
ReadMemory ==
    /\ Len(observed) <= MaxAccesses
    /\ LET read == RuntimeVariable_get_memory(variable)
       IN  /\ variable' = read.v
           /\ observed' = Append(observed,
                 [op |-> "memory", value |-> read.v._value, memory |-> read.memory])
    /\ UNCHANGED << session, handles, calls, formatted, converted, library, runtime >>

\* variable.setMemory(data, offset)
SetMemory ==
    /\ Len(observed) <= MaxAccesses
    /\ \E data \in WrittenData, offset \in WrittenOffsets :
         LET r == RuntimeVariable_setMemory(variable, data, offset)
         IN  /\ variable' = r.v
             /\ observed' = Append(observed,
                   [ op |-> "setMemory", value |-> r.v._value, data |-> data,
                     offset |-> offset, written |-> r.written,
                     thrown |-> r.thrown ])
    /\ UNCHANGED << session, handles, calls, formatted, converted, library, runtime >>

NextVariable == SetValue \/ ReadMemory \/ SetMemory

SpecVariable == InitVariable /\ [][NextVariable]_vars

\* ------------------------------------------- the enumeration of globals
\* number of calls of getGlobalVariables
MaxEnumerations == 2

\* the tokens passed: none, one that never says true, and ones that say
\* true at the first, the third and the tenth call
Tokens == { NoToken, Token(0), Token(1), Token(3), Token(10) }

\* the calls of getGlobalVariables made so far
Enumerations == { k \in DOMAIN observed : observed[k].op = "getGlobalVariables" }

InitEnumerate ==
    /\ AdapterInit
    /\ kind = "base"
    /\ ~_debuggerLinesStartAt1
    /\ EngineIdle
    /\ HandlesIdle
    /\ TranslatorIdle
    /\ LibraryIdle
    /\ \E v \in Variants : runtime = MockRuntime_new(v)
    /\ variable = RuntimeVariable_construct("", Number(0))
    /\ observed = <<>>

\* what a step of a call leaves: the call suspended, or its array returned
Continued(rt) ==
    IF rt.enumeration.underway
    THEN /\ runtime' = rt
         /\ observed' = observed
    ELSE /\ runtime' = [rt EXCEPT !.enumeration = NoEnumeration]
         /\ observed' = Append(observed,
               [ op |-> "returned", token |-> rt.enumeration.token,
                 a |-> rt.enumeration.a, polls |-> rt.enumeration.polls ])

\* getGlobalVariables(token) is called while no other call is under way
GetGlobalVariables ==
    /\ ~runtime.enumeration.underway
    /\ Cardinality(Enumerations) < MaxEnumerations
    /\ \E token \in Tokens :
         LET rt == MockRuntime_getGlobalVariables(runtime, token)
             noted == Append(observed, [op |-> "getGlobalVariables", token |-> token])
         IN  IF rt.enumeration.underway
             THEN /\ runtime' = rt
                  /\ observed' = noted
             ELSE /\ runtime' = [rt EXCEPT !.enumeration = NoEnumeration]
                  /\ observed' = Append(noted,
                        [ op |-> "returned", token |-> token,
                          a |-> rt.enumeration.a, polls |-> rt.enumeration.polls ])
    /\ UNCHANGED << session, handles, calls, formatted, converted, library, variable >>

\* the timeout the call awaits runs
Resume ==
    /\ runtime.enumeration.underway
    /\ Continued(MockRuntime_resume(runtime))
    /\ UNCHANGED << session, handles, calls, formatted, converted, library, variable >>

NextEnumerate == GetGlobalVariables \/ Resume

\* a timeout that was set runs in the end
SpecEnumerate == InitEnumerate /\ [][NextEnumerate]_vars /\ WF_vars(Resume)

\* ------------------------------------------------- the engine on its own
\* number of calls of MockRuntime.stack
MaxStackCalls == 1

\* the windows asked for: from the top or from the second frame, and empty,
\* two frames long or a thousand
Windows ==
    { [startFrame |-> s, endFrame |-> s + n] : s \in {0, 1}, n \in {0, 2, 1000} }

InitRuntime ==
    /\ AdapterInit
    /\ kind = "base"
    /\ ~_debuggerLinesStartAt1
    /\ EngineIdle
    /\ HandlesIdle
    /\ TranslatorIdle
    /\ LibraryIdle
    /\ \E v \in Variants : runtime = MockRuntime_new(v)
    /\ variable = RuntimeVariable_construct("", Number(0))
    /\ observed = <<>>

\* runtime.stack(startFrame, endFrame) is called
Stack ==
    /\ Len(observed) < MaxStackCalls
    /\ \E w \in Windows :
         observed' = Append(observed,
             [ op |-> "stack", startFrame |-> w.startFrame,
               endFrame |-> w.endFrame, caret |-> runtime.caret,
               stk |-> MockRuntime_stack(runtime, w.startFrame, w.endFrame) ])
    /\ UNCHANGED << session, handles, calls, formatted, converted, library, runtime, variable >>

NextRuntime == Step \/ Timer \/ Stack

SpecRuntime == InitRuntime /\ [][NextRuntime]_vars

\* ------------------------------------------ the engines told to run and stop
\* the most calls of start, continue, step, stepIn and stepOut
MaxEngineCalls == 2

\* the breakpoints set: two lines of the file, one past its end among
\* them, and a line of another file
OtherFile == "sampleWorkspace/other.md"
BreakPoints ==
    { << SourceFile, 9 >>, << SourceFile, 12 >>, << OtherFile, 9 >> }

\* an entry of `observed` that is a call; the others are emitted events
IsCall(e) == e.op # "emit"
IsEmit(e) == e.op = "emit"

\* a MockRuntime of either copy, or an NnMockDebugSession, with the host
\* listening
InitEngine ==
    /\ kind \in {"mock", "nn"}
    /\ Fresh
    /\ _listener = 1
    /\ registered = 1
    /\ EngineIdle
    /\ HandlesIdle
    /\ TranslatorIdle
    /\ LibraryIdle
    /\ \E v \in Variants :
         /\ kind = "nn" => v = "src/mockRuntime.ts"
         /\ runtime = MockRuntime_new(v)
    /\ variable = RuntimeVariable_construct("", Number(0))
    /\ observed = <<>>

\* a call on the engine: what it leaves, and the note of it with the number
\* of timers it set
Called(rt, note) ==
    /\ kind = "mock"
    /\ Len(SelectSeq(observed, IsCall)) < MaxEngineCalls
    /\ runtime' = rt
    /\ observed' = Append(observed,
          [ op |-> note[1], flag |-> note[2],
            set |-> Len(rt.timers) - Len(runtime.timers) ])
    /\ UNCHANGED << session, handles, calls, formatted, converted, library, variable >>

\* runtime.start(program, stopOnEntry, debug)
Start == \E debug \in BOOLEAN : Called(MockRuntime_start(runtime, debug), << "start", debug >>)

\* runtime.continue(reverse)
Continue ==
    \E reverse \in BOOLEAN :
        Called(MockRuntime_continue(runtime, reverse), << "continue", reverse >>)

\* runtime.step(instruction, reverse)
StepOver ==
    \E reverse \in BOOLEAN :
        Called(MockRuntime_step(runtime, FALSE, reverse), << "step", reverse >>)

\* runtime.stepIn(targetId)
StepIn == Called(MockRuntime_stepIn(runtime), << "stepIn", FALSE >>)

\* runtime.stepOut()
StepOut == Called(MockRuntime_stepOut(runtime), << "stepOut", FALSE >>)

\* runtime.setBreakPoint(path, line)
SetBreakPoint ==
    /\ kind = "mock"
    /\ \E b \in BreakPoints :
         runtime' = MockRuntime_setBreakPoint(runtime, b[1], b[2])
    /\ UNCHANGED << session, handles, calls, formatted, converted, library,
                    variable, observed >>

\* runtime.clearBreakpoints(path)
ClearBreakpoints ==
    /\ kind = "mock"
    /\ runtime' = MockRuntime_clearBreakpoints(runtime, SourceFile)
    /\ UNCHANGED << session, handles, calls, formatted, converted, library,
                    variable, observed >>

\* the timer set first runs: this.emit(event)
Fire ==
    /\ runtime.timers # <<>>
    /\ runtime' = [runtime EXCEPT !.timers = Tail(@)]
    /\ observed' = Append(observed, [op |-> "emit", event |-> Head(runtime.timers)])
    /\ UNCHANGED << session, handles, calls, formatted, converted, library, variable >>

\* the host sends the NnMockDebugSession a next request; as many are sent
\* as take the caret round once
HandleNext ==
    /\ kind = "nn"
    /\ inbound < NumAssignments
    /\ LET request == [ type |-> "request", seq |-> inbound + 1,
                        command |-> "next", arguments |-> NoArgs ]
       IN  /\ Commit(handleMessage(Self, request))
           /\ handled' = Append(handled,
                 [ seq |-> request.seq, command |-> "next",
                   pathFormat |-> NoArgs.pathFormat,
                   listening |-> _listener # NoListener ])
    /\ inbound' = inbound + 1
    /\ UNCHANGED standalone
    /\ UNCHANGED << kind, _debuggerLinesStartAt1, _debuggerColumnsStartAt1,
                    pendingLog, registered, outbound, resent >>

NextEngine ==
    \/ Start \/ Continue \/ StepOver \/ StepIn \/ StepOut
    \/ SetBreakPoint \/ ClearBreakpoints \/ Fire
    \/ HandleNext \/ RunImmediate

\* the event loop runs every timer that is due
SpecEngine == InitEngine /\ [][NextEngine]_vars /\ WF_vars(Fire)

\* ------------------------------------------------------------ properties
\* the places in the transport history of the responses to request s
ResponsesTo(s) ==
    { i \in DOMAIN transport :
        transport[i].msg.type = "response" /\ transport[i].msg.request_seq = s }

\* the responses to request s that were fired with no listener set
DroppedResponsesTo(s) ==
    { i \in DOMAIN dropped :
        dropped[i].msg.type = "response" /\ dropped[i].msg.request_seq = s }

\* the calls of sendResponse made for request s
PassedFor(s) == { i \in DOMAIN passed : passed[i].cause = s }

IsEvent(entry, name, s) ==
    entry.msg.type = "event" /\ entry.msg.event = name /\ entry.cause = s

\* C1: every request with a command of the dispatch set, handled while a
\* listener is registered, has exactly one response delivered to the
\* transport, and that response echoes the request's seq and command.
C1_ExactlyOneResponse ==
    \A k \in DOMAIN handled :
        (handled[k].command \in DispatchSet /\ handled[k].listening) =>
            /\ Cardinality(ResponsesTo(handled[k].seq)) = 1
            /\ \A i \in ResponsesTo(handled[k].seq) :
                 transport[i].msg.command = handled[k].command

\* C2: at most one response is delivered per request, also when sendResponse
\* is called again with a response object that was already sent.
C2_AtMostOneResponse ==
    \A s \in 1 .. inbound : Cardinality(ResponsesTo(s)) <= 1

\* C3: the success response of an initialize request is delivered only after
\* the `initialized` event of that request was delivered.
C3_InitializedBeforeResponse ==
    \A i \in DOMAIN transport :
        ( /\ transport[i].msg.type = "response"
          /\ transport[i].msg.command = "initialize"
          /\ transport[i].msg.success ) =>
            \E j \in 1 .. (i - 1) :
                IsEvent(transport[j], "initialized", transport[i].cause)

\* C4: the stopped(step) event of a `next` request of NnMockDebugSession
\* never overtakes the response to that request: when the event reaches the
\* transport the response was fired already, and if the response reached
\* the transport it stands before the event.
C4_ResponseNotOvertaken ==
    \A i \in DOMAIN transport :
        ( /\ transport[i].msg.type = "event"
          /\ transport[i].msg.event = "stopped"
          /\ transport[i].msg.body.reason = "step" ) =>
            /\ ResponsesTo(transport[i].cause) \cup DroppedResponsesTo(transport[i].cause) # {}
            /\ \A j \in ResponsesTo(transport[i].cause) : j < i

C4_Witness ==
    /\ kind = "nn"
    /\ \E i \in DOMAIN transport : \E j \in DOMAIN transport :
         /\ j < i
         /\ transport[j].msg.type = "response"
         /\ transport[j].msg.command = "next"
         /\ transport[i].msg.type = "event"
         /\ transport[i].msg.event = "stopped"
         /\ transport[i].msg.body.reason = "step"
         /\ transport[i].cause = transport[j].msg.request_seq

\* the step handles an inbound request whose command is not in the dispatch set
UnknownRequestStep ==
    /\ Len(handled') = Len(handled) + 1
    /\ handled'[Len(handled')].command \notin DispatchSet

\* C5: handling a request with an unknown command delivers no message (no
\* response, no event, now or deferred) and leaves the adapter state unchanged.
C5_UnknownCommandNoEffect ==
    [][ UnknownRequestStep =>
          UNCHANGED << transport, dropped, immediates, passed, invoked, rejected,
                       _listener, _clientLinesStartAt1, _clientColumnsStartAt1,
                       _debuggerLinesStartAt1, _debuggerColumnsStartAt1,
                       _pendingRequests, _nextHandle, _handleMap, caret >> ]_vars

C5_Witness ==
    \E k \in DOMAIN handled :
        /\ handled[k].command \notin DispatchSet
        /\ handled[k].listening
        /\ ResponsesTo(handled[k].seq) = {}

\* C6: an initialize request whose pathFormat is not "path" yields exactly
\* one response (delivered when a listener is registered), which is
\* unsuccessful and carries under body.error a structured error with the
\* telemetry destination set; no `initialized` event is raised for it.
C6_RejectedInitialize ==
    \A k \in DOMAIN handled :
        (handled[k].command = "initialize" /\ handled[k].pathFormat # "path") =>
            LET s == handled[k].seq
                sent == { transport[i].msg : i \in ResponsesTo(s) }
                        \cup { dropped[i].msg : i \in DroppedResponsesTo(s) }
            IN  /\ Cardinality(ResponsesTo(s)) + Cardinality(DroppedResponsesTo(s)) = 1
                /\ handled[k].listening => Cardinality(ResponsesTo(s)) = 1
                /\ \A r \in sent :
                     /\ ~r.success
                     /\ "error" \in DOMAIN r.body
                     /\ "sendTelemetry" \in DOMAIN r.body.error
                     /\ r.body.error.sendTelemetry
                /\ \A i \in DOMAIN transport : ~IsEvent(transport[i], "initialized", s)
                /\ \A i \in DOMAIN dropped : ~IsEvent(dropped[i], "initialized", s)
                /\ \A i \in DOMAIN immediates :
                     ~(immediates[i].event.event = "initialized" /\ immediates[i].cause = s)

C6_Witness ==
    \E k \in DOMAIN handled :
        /\ handled[k].command = "initialize"
        /\ handled[k].pathFormat = "uri"
        /\ handled[k].listening
        /\ \E i \in ResponsesTo(handled[k].seq) : ~transport[i].msg.success

\* C7, as claimed: every response a handler passes to sendResponse or
\* sendErrorResponse reaches the transport.
C7_NoResponseSwallowed ==
    \A k \in DOMAIN passed :
        \E i \in DOMAIN transport :
            transport[i].msg = passed[k].response /\ transport[i].cause = passed[k].cause

\* C7, amended: a response passed to sendResponse while a listener is
\* registered reaches that listener; one passed while no listener is
\* registered is dropped and is not delivered later.
C7_ResponseReachesListener ==
    \A k \in DOMAIN passed :
        IF passed[k].listener # NoListener
        THEN \E i \in DOMAIN transport :
                /\ transport[i].msg = passed[k].response
                /\ transport[i].to = passed[k].listener
                /\ transport[i].cause = passed[k].cause
        ELSE /\ \E i \in DOMAIN dropped :
                  dropped[i].msg = passed[k].response /\ dropped[i].cause = passed[k].cause
             /\ ResponsesTo(passed[k].response.request_seq) = {}

C7_Witness ==
    \E k \in DOMAIN passed : \E m \in DOMAIN passed :
        /\ passed[k].listener # NoListener
        /\ passed[m].listener = NoListener
        /\ registered > 0
        /\ k < m

\* the async handler of request s has run to its end or has thrown
Settled(s) == s \in rejected \/ PassedFor(s) # {}

\* C8: a launch request handled by NnMockDebugSession yields exactly one
\* response once its handler has settled.
C8_LaunchYieldsOneResponse ==
    \A k \in DOMAIN handled :
        (kind = "nn" /\ handled[k].command = "launch" /\ Settled(handled[k].seq)) =>
            Cardinality(PassedFor(handled[k].seq)) = 1

\* C9: every message delivered to the transport carries a seq strictly
\* greater than the seq of every message delivered before it.
C9_SeqStrictlyIncreasing ==
    \A i \in DOMAIN transport : \A j \in DOMAIN transport :
        i < j => transport[i].msg.seq < transport[j].msg.seq

\* the places of pendingLog where a response finds its entry in the table:
\* the entry was stored before and no response to that seq came in between
Matching ==
    { i \in DOMAIN pendingLog :
        /\ pendingLog[i].op = "response"
        /\ \E j \in 1 .. (i - 1) :
             /\ pendingLog[j] = [op |-> "store", seq |-> pendingLog[i].seq]
             /\ \A m \in (j + 1) .. (i - 1) :
                  pendingLog[m] # [op |-> "response", seq |-> pendingLog[i].seq] }

\* the seqs stored and not answered since
Unanswered ==
    { pendingLog[j].seq : j \in
        { j \in DOMAIN pendingLog :
            /\ pendingLog[j].op = "store"
            /\ \A m \in (j + 1) .. Len(pendingLog) :
                 pendingLog[m] # [op |-> "response", seq |-> pendingLog[j].seq] } }

RECURSIVE SeqsAt(_, _)
\* the seqs of the log at the places of `at`, in the order of the log
SeqsAt(log, at) ==
    IF log = <<>> THEN <<>>
    ELSE LET rest == SeqsAt(SubSeq(log, 1, Len(log) - 1), at)
         IN  IF Len(log) \in at THEN Append(rest, log[Len(log)].seq) ELSE rest

\* C10: the first response that matches a stored entry invokes its
\* continuation once and removes the entry; a later response with the same
\* request_seq, and a response that matches no entry, invokes nothing,
\* emits nothing and leaves the table as it is.
C10_PendingResolvedOnce ==
    /\ invoked = SeqsAt(pendingLog, Matching)
    /\ _pendingRequests = Unanswered
    /\ Len(transport) + Len(dropped) = outbound
    /\ immediates = <<>>
    /\ passed = <<>>

C10_Witness ==
    \E i \in Matching : \E m \in DOMAIN pendingLog :
        /\ i < m
        /\ pendingLog[m] = pendingLog[i]
        /\ invoked = << pendingLog[i].seq >>

\* ------------------------------------------- properties of the handle table
Creates == { i \in DOMAIN calls : calls[i].op = "create" }
Resets == { i \in DOMAIN calls : calls[i].op = "reset" }
Gets == { i \in DOMAIN calls : calls[i].op = "get" }

\* the place of the latest reset before call i, 0 when there is none: the
\* calls after it and before i are of the generation call i sees
LastReset(i) ==
    LET R == { k \in Resets : k < i }
    IN  IF R = {} THEN 0 ELSE CHOOSE k \in R : \A m \in R : m <= k

\* the creates of the generation call i sees that returned handle h
IssuedFor(i, h) ==
    { k \in Creates : LastReset(i) < k /\ k < i /\ calls[k].handle = h }

\* handle h was returned by a create that a reset before call i followed
PreReset(i, h) ==
    \E c \in Creates, r \in Resets :
        c < r /\ r < i /\ calls[c].handle = h

\* C11: within one generation (no reset between them) the handles create
\* returns are strictly increasing, hence pairwise distinct, whatever gets
\* were made in between.
C11_HandlesStrictlyIncreasing ==
    \A i \in Creates, j \in Creates :
        (i < j /\ LastReset(j) < i) => calls[i].handle < calls[j].handle

\* two creates with a get between them in a generation a reset started
C11_Witness ==
    \E r \in Resets, i \in Creates, g \in Gets, j \in Creates :
        r < i /\ i < g /\ g < j /\ LastReset(j) = r

\* C12: the first create after a reset returns the base the table was
\* configured with: the constructor's startHandle when one was given,
\* otherwise 1000.
C12_ResetRestartsAtConfiguredBase ==
    \A r \in Resets, c \in Creates :
        (r < c /\ LastReset(c) = r /\ \A k \in Creates : ~(r < k /\ k < c))
        => calls[c].handle =
              IF calls[1].startHandle # NoNumber THEN calls[1].startHandle
              ELSE 1000

C14_GetTotal ==
    /\ \A g \in Gets :
         LET B == IssuedFor(g, calls[g].handle)
         IN  calls[g].result =
                IF B # {} /\ Truthy(calls[CHOOSE k \in B : TRUE].value)
                THEN calls[CHOOSE k \in B : TRUE].value
                ELSE calls[g].defaultValue
    /\ DOMAIN handles._handleMap =
         { calls[k].handle : k \in { c \in Creates : LastReset(Len(calls) + 1) < c } }
    /\ \A k \in Creates :
         LastReset(Len(calls) + 1) < k =>
            handles._handleMap[calls[k].handle] = calls[k].value

\* a get with a default on a handle bound to a falsy value, and a get that
\* finds a truthy value
C14_Witness ==
    \E f \in Gets, t \in Gets :
        /\ \E k \in IssuedFor(f, calls[f].handle) : ~Truthy(calls[k].value)
        /\ calls[f].defaultValue # NoValue
        /\ \E k \in IssuedFor(t, calls[t].handle) : Truthy(calls[k].value)

\* ---------------------------------------------- properties of the formatter
\* the variables list of the response sendResponse was passed for request s
Answer(s) == passed[CHOOSE i \in PassedFor(s) : TRUE].response.body.variables

\* the variables requests handled
Asked == { i \in DOMAIN handled : handled[i].command = "variables" }

\* C15: every formatting of one RuntimeVariable object reports the same
\* variablesReference and memoryReference, at most one formatting of it
\* mints a handle and no object is bound to two handles; variables requests
\* for one reference that resolves to a variable report the same references
\* for its children each time, the ones a direct formatting of the child
\* reports.
C15_ReferenceMintedOnce ==
    /\ \A i \in DOMAIN formatted, j \in DOMAIN formatted :
         formatted[i].id = formatted[j].id =>
            /\ formatted[i].dap.variablesReference = formatted[j].dap.variablesReference
            /\ formatted[i].dap.memoryReference = formatted[j].dap.memoryReference
    /\ \A i \in DOMAIN formatted : formatted[i].minted <= 1
    /\ \A id \in Roots :
         Cardinality({ i \in DOMAIN formatted :
                         formatted[i].id = id /\ formatted[i].minted > 0 }) <= 1
    /\ \A h1 \in DOMAIN _handleMap, h2 \in DOMAIN _handleMap :
         _handleMap[h1] = _handleMap[h2] => h1 = h2
    /\ \A a \in Asked, b \in Asked :
         ( /\ handled[a].variablesReference = handled[b].variablesReference
           /\ handled[a].resolved.tag = "variable" ) =>
            /\ Len(Answer(handled[a].seq)) = Len(Answer(handled[b].seq))
            /\ \A k \in DOMAIN Answer(handled[a].seq) :
                 /\ Answer(handled[a].seq)[k].variablesReference =
                       Answer(handled[b].seq)[k].variablesReference
                 /\ Answer(handled[a].seq)[k].memoryReference =
                       Answer(handled[b].seq)[k].memoryReference
    /\ \A a \in Asked, i \in DOMAIN formatted :
         ( /\ handled[a].resolved = Variable(2)
           /\ formatted[i].id = 1
           /\ Answer(handled[a].seq) # <<>> ) =>
            Answer(handled[a].seq)[1].memoryReference = formatted[i].dap.memoryReference

\* a variable with a reference was formatted twice and two requests for one
\* reference returned a child that has a reference of its own
C15_Witness ==
    /\ \E i \in DOMAIN formatted, j \in DOMAIN formatted :
         /\ i < j
         /\ formatted[i].id = formatted[j].id
         /\ formatted[i].dap.variablesReference > 0
    /\ \E a \in Asked, b \in Asked :
         /\ a < b
         /\ handled[a].variablesReference = handled[b].variablesReference
         /\ handled[a].resolved.tag = "variable"
         /\ Answer(handled[b].seq) # <<>>
         /\ \/ Answer(handled[b].seq)[1].variablesReference > 0
            \/ Answer(handled[b].seq)[1].memoryReference # NoText

\* C16: a variables request whose reference resolves to the locals sentinel
\* is answered once, with the engine's local variables in the engine's
\* order, each as the formatter renders it; one whose reference resolves to
\* the globals sentinel is answered with the engine's globals.
C16_ScopesReturnEngineLists ==
    \A a \in Asked :
        handled[a].resolved \in {Locals, Globals} =>
            LET engine == IF handled[a].resolved = Locals
                          THEN getLocalVariables(Self)
                          ELSE getGlobalVariables(Self)
            IN  /\ Cardinality(PassedFor(handled[a].seq)) = 1
                /\ \A i \in PassedFor(handled[a].seq) : passed[i].response.success
                /\ Len(Answer(handled[a].seq)) = Len(engine.vs)
                /\ \A k \in DOMAIN engine.vs :
                     Answer(handled[a].seq)[k].name = engine.st.heap[engine.vs[k]].name
                /\ Answer(handled[a].seq) = convertAll(engine.st, engine.vs).out

\* a session whose engine has locals answered a request for the locals and
\* a request for the globals
C16_Witness ==
    /\ kind = "nn"
    /\ \E a \in Asked, b \in Asked :
         /\ handled[a].resolved = Locals
         /\ Len(Answer(handled[a].seq)) = 2
         /\ handled[b].resolved = Globals

\* C17: a variables request whose reference the table does not know, or
\* whose reference resolves to a variable that holds no array, has
\* sendResponse called once, with a successful response whose variables
\* list is empty; that response is fired once (to the listener when one is
\* held), the handler does not throw and no handle is minted.
C17_UnknownReferenceYieldsEmptyList ==
    \A a \in Asked :
        ( \/ handled[a].resolved = NoValue
          \/ /\ handled[a].resolved.tag = "variable"
             /\ heap[handled[a].resolved.id]._value.tag # "array" ) =>
            /\ Cardinality(PassedFor(handled[a].seq)) = 1
            /\ \A i \in PassedFor(handled[a].seq) :
                 /\ passed[i].response.success
                 /\ passed[i].response.body.variables = <<>>
            /\ handled[a].seq \notin rejected
            /\ handled[a].minted = 0
            /\ Cardinality(ResponsesTo(handled[a].seq))
                 + Cardinality(DroppedResponsesTo(handled[a].seq)) = 1
            /\ handled[a].listening => Cardinality(ResponsesTo(handled[a].seq)) = 1

\* with the listener held, a request for a reference never issued and a
\* request for the reference of a variable that holds a string
C17_Witness ==
    \E a \in Asked, b \in Asked :
        /\ handled[a].listening /\ handled[b].listening
        /\ handled[a].resolved = NoValue
        /\ handled[b].resolved.tag = "variable"
        /\ heap[handled[b].resolved.id]._value.tag = "string"

\* C18: a variable whose name contains "lazy" is formatted with the
\* placeholder value and the lazy hint whatever its value is; its
\* variablesReference is bound to a container whose value is an array of
\* one child, another object whose name has no "lazy" and whose value is the
\* variable's; a variables request for that reference is answered with
\* that child alone, formatted by its real value.
C18_LazyTakesPrecedence ==
    \A i \in DOMAIN formatted :
        heap[formatted[i].id].name \in LazyNames =>
            LET ref == formatted[i].dap.variablesReference
            IN  /\ formatted[i].dap.value = Text("lazy var", 0, "")
                /\ formatted[i].dap.lazy
                /\ ref \in DOMAIN _handleMap
                /\ _handleMap[ref].tag = "variable"
                /\ heap[_handleMap[ref].id]._value.tag = "array"
                /\ Len(heap[_handleMap[ref].id]._value.items) = 1
                /\ LET child == heap[_handleMap[ref].id]._value.items[1]
                   IN  /\ child # formatted[i].id
                       /\ heap[child].name \notin LazyNames
                       /\ heap[child]._value = heap[formatted[i].id]._value
                       /\ \A a \in Asked :
                            handled[a].variablesReference = ref =>
                               /\ Len(Answer(handled[a].seq)) = 1
                               /\ ~Answer(handled[a].seq)[1].lazy
                               /\ Answer(handled[a].seq) =
                                     << convertFromRuntime(Self, child).dap >>

\* a lazy variable that holds an array was formatted and a request for its
\* reference was answered
C18_Witness ==
    \E i \in DOMAIN formatted, a \in Asked :
        /\ heap[formatted[i].id].name \in LazyNames
        /\ heap[formatted[i].id]._value.tag = "array"
        /\ handled[a].variablesReference = formatted[i].dap.variablesReference
        /\ Len(Answer(handled[a].seq)) = 1

\* ------------------------------------ properties of the coordinate translator
Conversions == { i \in DOMAIN converted : converted[i].op = "convert" }

\* the client flag the first n requests leave in force: what the latest
\* initialize request that states the flag states, 1-based when none does
ClientStartsAt1(flag, n) ==
    LET S == { i \in 1 .. n :
                 handled[i].command = "initialize" /\ handled[i][flag] # Undefined }
    IN  IF S = {} THEN TRUE
        ELSE handled[CHOOSE i \in S : \A j \in S : j <= i][flag] = "true"

\* the engine flag: what the constructor was given, 0-based when nothing
EngineStartsAt1 == converted[1].argument = "true"

\* the shift from the engine's numbering to the client's
Shift(engineAt1, clientAt1) ==
    IF ~engineAt1 /\ clientAt1 THEN 1
    ELSE IF engineAt1 /\ ~clientAt1 THEN 0 - 1
    ELSE 0

\* C19: whatever the four origin flags are, converting a client line to the
\* engine's numbering and back gives the line again, and so for a column.
C19_RoundTrip ==
    \A i \in Conversions :
        /\ converted[i].lineBack = converted[i].value
        /\ converted[i].columnBack = converted[i].value

\* a round trip made while the conventions disagree for lines and for columns
C19_Witness ==
    \E i \in Conversions :
        /\ converted[i].line # converted[i].value
        /\ converted[i].column # converted[i].value
        /\ converted[i].after > 0

\* C20: an engine line or column is converted by +1 when the engine is
\* 0-based and the client 1-based, by -1 when the engine is 1-based and the
\* client 0-based, and not at all when they agree; the client's convention
\* is the one the latest initialize request that states it states (1-based
\* when none has), whether or not that request was rejected, and the
\* engine's the one given at construction (0-based when none was given).
C20_ShiftByFlags ==
    /\ \A i \in Conversions :
         /\ converted[i].line = converted[i].value
               + Shift(EngineStartsAt1,
                       ClientStartsAt1("linesStartAt1", converted[i].after))
         /\ converted[i].column = converted[i].value
               + Shift(EngineStartsAt1,
                       ClientStartsAt1("columnsStartAt1", converted[i].after))
    /\ _clientLinesStartAt1 = ClientStartsAt1("linesStartAt1", Len(handled))
    /\ _clientColumnsStartAt1 = ClientStartsAt1("columnsStartAt1", Len(handled))
    /\ _debuggerLinesStartAt1 = EngineStartsAt1
    /\ _debuggerColumnsStartAt1 = EngineStartsAt1

\* a 1-based engine's line converted down for a client that two initialize
\* requests have configured, and the column left as it is
C20_Witness ==
    \E i \in Conversions :
        /\ converted[i].after = 2
        /\ converted[i].line = converted[i].value - 1
        /\ converted[i].column = converted[i].value

\* ------------------------------------------------ properties of the Emitter
\* C21: a step delivers at most one message, and delivers it to the listener
\* registered last: after a second registration the earlier listener
\* receives nothing.
C21_OnlyNewestListener ==
    [][ /\ Len(transport') <= Len(transport) + 1
        /\ \A i \in (Len(transport) + 1) .. Len(transport') :
              transport'[i].to = registered ]_vars

\* a message reached the first listener and, after the second registration,
\* a later one reached the second
C21_Witness ==
    /\ registered = 2
    /\ \E i \in DOMAIN transport, j \in DOMAIN transport :
         i < j /\ transport[i].to = 1 /\ transport[j].to = 2

\* --------------------------------------------- properties of error responses
\* C22: a request failed through sendErrorResponse has one response fired
\* (delivered to the listener when one is held); it is unsuccessful and its
\* body.error is the structured message passed or, for a numeric code, the
\* message with that id and format in which showUser and sendTelemetry are
\* present, and true, exactly when the destination has the bit.
C22_ErrorResponse ==
    \A k \in DOMAIN handled :
        "failure" \in DOMAIN handled[k] =>
            LET s == handled[k].seq
                given == handled[k].failure
                sent == { transport[i].msg : i \in ResponsesTo(s) }
                        \cup { dropped[i].msg : i \in DroppedResponsesTo(s) }
            IN  /\ Cardinality(ResponsesTo(s)) + Cardinality(DroppedResponsesTo(s)) = 1
                /\ handled[k].listening => Cardinality(ResponsesTo(s)) = 1
                /\ \A r \in sent :
                     /\ ~r.success
                     /\ "error" \in DOMAIN r.body
                     /\ IF "code" \in DOMAIN given.codeOrMessage
                        THEN /\ r.body.error.id = given.codeOrMessage.code
                             /\ r.body.error.format = given.format
                             /\ r.message = given.format
                             /\ ("showUser" \in DOMAIN r.body.error)
                                   <=> (given.dest \cap ErrorDestination_User # {})
                             /\ ("sendTelemetry" \in DOMAIN r.body.error)
                                   <=> (given.dest \cap ErrorDestination_Telemetry # {})
                             /\ \A f \in DOMAIN r.body.error \ {"id", "format"} :
                                   r.body.error[f] = TRUE
                        ELSE r.body.error = given.codeOrMessage

\* with the listener held, a code for both destinations and a code for
\* neither were turned into responses
C22_Witness ==
    \E k \in DOMAIN handled, m \in DOMAIN handled :
        /\ "failure" \in DOMAIN handled[k] /\ "failure" \in DOMAIN handled[m]
        /\ handled[k].listening /\ handled[m].listening
        /\ handled[k].failure.dest =
              ErrorDestination_User \cup ErrorDestination_Telemetry
        /\ "code" \in DOMAIN handled[k].failure.codeOrMessage
        /\ handled[m].failure.dest = {}
        /\ Cardinality(ResponsesTo(handled[k].seq)) = 1
        /\ Cardinality(ResponsesTo(handled[m].seq)) = 1

\* C23: for every stackTrace request the stack hook is called once, with the
\* window from startFrame (0 when absent) to startFrame + levels (levels
\* 1000 when absent); the response holds one frame per frame returned, in
\* the same order, each with the returned index, name and file and the
\* returned line in the client's convention, and totalFrames is the
\* returned count
C23_StackTraceWindow ==
    \A k \in DOMAIN handled :
        handled[k].command = "stackTrace" =>
            LET s == handled[k].seq
                from == IF handled[k].startFrame = NoNumber THEN 0
                        ELSE handled[k].startFrame
                upto == from + (IF handled[k].levels = NoNumber THEN 1000
                                ELSE handled[k].levels)
                hooks == { i \in DOMAIN asked : asked[i].cause = s }
            IN  /\ Cardinality(hooks) = 1
                /\ \A i \in hooks :
                      /\ asked[i].startFrame = from
                      /\ asked[i].endFrame = upto
                      /\ \A r \in ResponsesTo(s) :
                            LET body == transport[r].msg.body
                                stk == asked[i].stk
                            IN  /\ transport[r].msg.success
                                /\ body.totalFrames = stk.count
                                /\ Len(body.stackFrames) = Len(stk.frames)
                                /\ \A f \in DOMAIN stk.frames :
                                      /\ body.stackFrames[f].id = stk.frames[f].index
                                      /\ body.stackFrames[f].name = stk.frames[f].name
                                      /\ body.stackFrames[f].source.path = stk.frames[f].file
                                      /\ body.stackFrames[f].line =
                                            stk.frames[f].line
                                            + (IF _debuggerLinesStartAt1 THEN 0 ELSE 1)
                                            - (IF _clientLinesStartAt1 THEN 0 ELSE 1)
                /\ Cardinality(ResponsesTo(s)) = 1

\* a stackTrace request that names a start frame and no levels was answered
\* with the frame of an engine that had stepped
C23_Witness ==
    \E k \in DOMAIN handled :
        /\ handled[k].command = "stackTrace"
        /\ handled[k].startFrame = 1
        /\ handled[k].levels = NoNumber
        /\ \E r \in ResponsesTo(handled[k].seq) :
              /\ Len(transport[r].msg.body.stackFrames) = 1
              /\ transport[r].msg.body.stackFrames[1].line > 2

\* the capability flags of the Debug Adapter Protocol the adapter states
CapabilityFlags ==
    { "supportsConditionalBreakpoints", "supportsHitConditionalBreakpoints",
      "supportsFunctionBreakpoints", "supportsConfigurationDoneRequest",
      "supportsEvaluateForHovers", "supportsStepBack", "supportsSetVariable",
      "supportsRestartFrame", "supportsStepInTargetsRequest",
      "supportsGotoTargetsRequest", "supportsCompletionsRequest",
      "supportsRestartRequest", "supportsExceptionOptions",
      "supportsValueFormattingOptions", "supportsExceptionInfoRequest",
      "supportTerminateDebuggee", "supportsDelayedStackTraceLoading",
      "supportsLoadedSourcesRequest", "supportsLogPoints",
      "supportsTerminateThreadsRequest", "supportsSetExpression",
      "supportsTerminateRequest", "supportsDataBreakpoints",
      "supportsReadMemoryRequest", "supportsDisassembleRequest",
      "supportsCancelRequest", "supportsBreakpointLocationsRequest",
      "supportsClipboardContext", "supportsSteppingGranularity",
      "supportsInstructionBreakpoints", "supportsExceptionFilterOptions" }

\* the places in the transport history of the successful initialize responses
InitializeResponses ==
    { i \in DOMAIN transport :
        /\ transport[i].msg.type = "response"
        /\ transport[i].msg.command = "initialize"
        /\ transport[i].msg.success }

\* C24: the body of every successful initialize response holds every
\* capability flag, each a boolean, and every one of them false
C24_AllCapabilitiesFalse ==
    \A i \in InitializeResponses :
        LET body == transport[i].msg.body
        IN  /\ CapabilityFlags \subseteq DOMAIN body
            /\ \A f \in CapabilityFlags : body[f] = FALSE

\* C24, amended: the body of every successful initialize response holds
\* every capability flag, each a boolean; supportsConfigurationDoneRequest
\* is true and every other flag is false
C24_CapabilitiesButConfigurationDone ==
    \A i \in InitializeResponses :
        LET body == transport[i].msg.body
        IN  /\ CapabilityFlags \subseteq DOMAIN body
            /\ \A f \in CapabilityFlags :
                  /\ body[f] \in BOOLEAN
                  /\ body[f] = (f = "supportsConfigurationDoneRequest")

\* the host received a successful initialize response
C24_Witness ==
    \E i \in InitializeResponses :
        transport[i].msg.body.supportsConfigurationDoneRequest

\* C25: whatever values were assigned, buffers read and bytes written
\* before, a read of memory returns the encoding of the value the variable
\* has then when that value is a string, and nothing when it is not
C25_MemoryIsEncodingOfValue ==
    \A k \in DOMAIN observed :
        observed[k].op = "memory" =>
            IF observed[k].value.tag = "string"
            THEN observed[k].memory = Bytes(encode(observed[k].value.s))
            ELSE observed[k].memory = NoValue

\* the first n of the ten variables global_0 .. global_9
FirstGlobals(n) == [ j \in 1 .. n |-> RuntimeVariable_new("global_" \o ToString(j - 1), Number(10 * (j - 1))) ]

\* C26, what is returned: a call given a token has called it once for each
\* variable it made; when the token first says true at its k-th call the
\* array returned is global_0 .. global_(k-1), and when it never says true
\* the array is all ten
C26_Returned ==
    \A k \in DOMAIN observed :
        (observed[k].op = "returned" /\ observed[k].token.given) =>
            /\ observed[k].polls = Len(observed[k].a)
            /\ observed[k].a # <<>>
            /\ IF observed[k].token.from \in 1 .. NumGlobals
               THEN observed[k].a = FirstGlobals(observed[k].token.from)
               ELSE observed[k].a = FirstGlobals(NumGlobals)

\* C26: getGlobalVariables calls the token once for each variable it makes,
\* stops when the token first says true and returns the variables made so
\* far, returns all ten when the token never says true, and every call
\* returns
C26_EnumerationStopsAndReturns ==
    /\ []C26_Returned
    /\ (runtime.enumeration.underway ~> ~runtime.enumeration.underway)

\* a call whose token said true at its third call has returned
C26_Witness ==
    \E k \in DOMAIN observed :
        /\ observed[k].op = "returned"
        /\ observed[k].token = Token(3)
        /\ Len(observed[k].a) = 3

\* the configuration of the adapter that is neither the engine's state nor
\* the handle table
Configuration ==
    << kind, _debuggerLinesStartAt1, _debuggerColumnsStartAt1, _listener,
       _pendingRequests >>

ClientOrigin == << _clientLinesStartAt1, _clientColumnsStartAt1 >>

\* a step that handles a request
RequestHandled == Len(handled') = Len(handled) + 1

\* C27: handling a request leaves all adapter state unchanged except the
\* engine state and the handle table
C27_RequestsLeaveAdapterState ==
    [][RequestHandled => UNCHANGED << Configuration, ClientOrigin >>]_vars

\* C27, amended: handling a request leaves all adapter state unchanged
\* except the engine state and the handle table, and, when the request is
\* initialize, the client's line and column origin
C27_RequestsButInitializeLeaveAdapterState ==
    [][RequestHandled =>
          /\ UNCHANGED Configuration
          /\ handled'[Len(handled')].command # "initialize" => UNCHANGED ClientOrigin]_vars

\* a request other than initialize was handled after an initialize request
\* had moved the client's line origin
C27_Witness ==
    /\ ~_clientLinesStartAt1
    /\ \E k \in DOMAIN handled :
          /\ handled[k].command = "initialize"
          /\ \E m \in DOMAIN handled : m > k /\ handled[m].command = "configurationDone"

\* C28: whatever the caret, the frames stack(startFrame, endFrame) returns
\* have their index from startFrame up to and not including endFrame, and
\* are no more than endFrame - startFrame
C28_StackWithinWindow ==
    \A k \in DOMAIN observed :
        observed[k].op = "stack" =>
            LET frames == observed[k].stk.frames
            IN  /\ Len(frames) <= observed[k].endFrame - observed[k].startFrame
                /\ \A f \in DOMAIN frames :
                      /\ frames[f].index >= observed[k].startFrame
                      /\ frames[f].index < observed[k].endFrame

\* C29: the memoryReference of a formatted variable is the decimal form of
\* a handle that the table resolves to that variable itself, also when the
\* variable has a lazy name and a string value
C29_MemoryReferenceResolvesToVariable ==
    \A i \in DOMAIN formatted :
        formatted[i].dap.memoryReference # NoText =>
            LET reference == formatted[i].dap.memoryReference
            IN  /\ reference.form = "decimal"
                /\ reference.n \in DOMAIN _handleMap
                /\ _handleMap[reference.n] = Variable(formatted[i].id)

\* the places in the transport history of the stopped events with reason
\* entry that request s raised
EntryStops(s) ==
    { i \in DOMAIN transport :
        /\ IsEvent(transport[i], "stopped", s)
        /\ transport[i].msg.body.reason = "entry" }

\* the handler of request s has settled, every callback it has set has run,
\* and nothing it sent was fired with no listener set
Finished(s) ==
    /\ Settled(s)
    /\ \A i \in DOMAIN immediates : immediates[i].cause # s
    /\ \A i \in DOMAIN dropped : dropped[i].cause # s

\* C30: a launch request handled by NnMockDebugSession is followed by
\* exactly one stopped event with reason entry, delivered after the launch
\* response
C30_EntryStopAfterLaunchResponse ==
    \A k \in DOMAIN handled :
        ( /\ kind = "nn"
          /\ handled[k].command = "launch"
          /\ handled[k].listening
          /\ Finished(handled[k].seq) ) =>
            /\ Cardinality(EntryStops(handled[k].seq)) = 1
            /\ ResponsesTo(handled[k].seq) # {}
            /\ \A r \in ResponsesTo(handled[k].seq) :
                  \A i \in EntryStops(handled[k].seq) : r < i

\* C31: whatever messages the adapter of either class was handed, its
\* handle table holds nothing and has issued no handle, and every variables
\* response carries an empty list
C31_HandleTableStaysEmpty ==
    /\ _handleMap = NoHandles
    /\ _nextHandle = DefaultStartHandle
    /\ \A i \in DOMAIN passed :
          passed[i].response.command = "variables" =>
              /\ passed[i].response.success
              /\ passed[i].response.body.variables = <<>>

\* the host of an NnMockDebugSession received the response to a variables
\* request
C31_Witness ==
    /\ kind = "nn"
    /\ \E i \in DOMAIN transport :
          /\ transport[i].msg.type = "response"
          /\ transport[i].msg.command = "variables"
          /\ transport[i].msg.body.variables = <<>>

\* C32: handling an initialize request whose pathFormat is not 'path' leaves
\* the client's line origin and column origin as they were
C32_RejectedInitializeKeepsOrigin ==
    [][ ( /\ RequestHandled
          /\ handled'[Len(handled')].command = "initialize"
          /\ handled'[Len(handled')].pathFormat # "path" )
        => UNCHANGED ClientOrigin ]_vars

\* C33: disposing the subscription of an earlier registration while the
\* listener of a later registration is the one set leaves that listener set
C33_DisposalSparesNewerListener ==
    [][ \A s \in 1 .. registered :
           (disposed' = Append(disposed, s) /\ s < _listener)
               => _listener' = _listener ]_vars

\* a step that handles an inbound response or event
OtherHandled == inbound' = inbound + 1 /\ handled' = handled

\* C34: the pending-request table is empty in every reachable state, and
\* handling an inbound response or event invokes no continuation, delivers
\* nothing to the transport and leaves the adapter's state as it was
C34_ResponsesAndEventsIgnored ==
    /\ [](_pendingRequests = {} /\ invoked = <<>>)
    /\ [][ OtherHandled =>
              UNCHANGED << Configuration, ClientOrigin, _nextHandle, _handleMap,
                           caret, heap, immediates, transport, dropped, passed,
                           asked, invoked, rejected >> ]_vars

C34_Witness ==
    /\ \E k \in DOMAIN pendingLog : pendingLog[k].op = "response"
    /\ inbound = MaxMessages
    /\ handled = <<>>
    /\ _listener # NoListener

\* the waiters whose promise is pending: resolve was never called for them
Pending(sj) == { w \in DOMAIN sj.pool : sj.pool[w].resolve = <<>> }

\* a step that is a call of notify()
Notified == subject'.log = Append(subject.log, "notify")

\* C35: a call of notify() made while some waiter is pending resolves
\* exactly one pending waiter
C35_NotifyWakesOnePending ==
    [][ (Notified /\ Pending(subject) # {}) =>
            /\ Pending(subject') \subseteq Pending(subject)
            /\ Cardinality(Pending(subject')) = Cardinality(Pending(subject)) - 1 ]_vars

\* the causes resolve was called with for waiter w
Causes(sj, w) == { sj.pool[w].resolve[k] : k \in DOMAIN sj.pool[w].resolve }

\* C36: a wait with a positive timeout is resolved in the end, whether or
\* not notify or notifyAll is ever called; and a waiter that notify or
\* notifyAll woke first has no timer left that could run and is never
\* resolved by its timer as well
C36_WaitResolvesByOneCause ==
    /\ \A w \in 1 .. MaxWaits :
          (w \in DOMAIN subject.pool /\ subject.pool[w].delay > 0)
              ~> (w \in DOMAIN subject.pool /\ subject.pool[w].resolve # <<>>)
    /\ [](\A w \in DOMAIN subject.pool :
             (/\ subject.pool[w].resolve # <<>>
              /\ Head(subject.pool[w].resolve) \in {"notify", "notifyAll"})
                 => /\ subject.pool[w].timer \notin subject.live
                    /\ "timeout" \notin Causes(subject, w))

C36_Witness ==
    \E w \in DOMAIN subject.pool : \E v \in DOMAIN subject.pool :
        /\ subject.pool[w].delay > 0
        /\ subject.pool[w].resolve = << "notify" >>
        /\ subject.pool[v].resolve = << "timeout" >>
        /\ Notifies(subject) = {Len(subject.log)}

\* C37: when an emit has returned, the listeners it called are the
\* listeners that were registered when it began, each once and in the
\* order of their registration, whatever the listeners removed meanwhile
C37_EmitCallsEveryListener ==
    emitter.emit.state = "returned" =>
        emitter.emit.called = emitter.emit.registered

\* C38: the caret of the MockRuntime, of either copy, and the caret of the
\* NnMockDebugSession are indices of the nine assignments after every call
\* and every next request, so the current line is that of an assignment
C38_CaretWithinAssignments ==
    /\ runtime.caret \in 0 .. (Len(assignments) - 1)
    /\ caret \in 0 .. (NumAssignments - 1)
    /\ assignments[runtime.caret + 1].linenumber \in 1 .. NumAssignments

C38_Witness ==
    /\ kind = "mock"
    /\ runtime.variant = "unnamed/part_000"
    /\ runtime.caret = 0
    /\ LET made == SelectSeq(observed, IsCall)
       IN  /\ Len(made) = 2
           /\ made[1] = [op |-> "continue", flag |-> TRUE, set |-> 1]
           /\ made[2].op = "stepOut"

\* the calls made on the engine and the events emitted, each in order
Made == SelectSeq(observed, IsCall)
Emitted == SelectSeq(observed, IsEmit)

\* the calls the stop events are due to: start with debug set, continue,
\* step, stepIn and stepOut, and the event of each
Stopping(call) == call.op = "start" => call.flag
StopEvent(call) ==
    CASE call.op = "start" -> "stopOnEntry"
      [] call.op = "continue" -> "stopOnBreakpoint"
      [] OTHER -> "stopOnStep"

\* timers run in the order they were set: the number of timers set by the
\* calls up to call k is the place among the emitted events of the event
\* that call k's timer emits
RECURSIVE TimersSet(_)
TimersSet(k) == IF k = 0 THEN 0 ELSE TimersSet(k - 1) + Made[k].set

\* a step that is a call on the engine
CallMade == Len(Made') = Len(Made) + 1

\* C39: every call of start with debug set, continue, step, stepIn or
\* stepOut is followed in the end by one stop event of its kind, which is
\* not emitted before the call has returned
C39_EveryCallStopsOnce ==
    /\ \A k \in 1 .. MaxEngineCalls :
          (k \in DOMAIN Made /\ Stopping(Made[k]))
              ~> ( /\ k \in DOMAIN Made
                   /\ Made[k].set = 1
                   /\ TimersSet(k) \in DOMAIN Emitted
                   /\ Emitted[TimersSet(k)].event = StopEvent(Made[k]) )
    /\ [](\A k \in DOMAIN Made : Stopping(Made[k]) => Made[k].set <= 1)
    /\ [][CallMade => Emitted' = Emitted]_vars

====
